---- MODULE Spec2Model ----
(***************************************************************************)
(* Freshservice Ticket Analyzer.                                           *)
(*                                                                         *)
(* Part I models the cookie-mode server (src/server.js): the process-wide  *)
(* session cache, the browser login, ensureValidSession, the paginated     *)
(* fetchTicketsFromAPI with its single re-login, and the handlers of       *)
(* GET /, GET /api/tickets and POST /api/login.  Requests run concurrently *)
(* and interleave at the points where the code awaits I/O.                 *)
(*                                                                         *)
(* Part II models the pure analyzer analyzeTickets on JavaScript values,   *)
(* in its three variants (cookie-mode server, API-key server, script), and *)
(* the response bodies the ticket handlers build from its result.          *)
(*                                                                         *)
(* Part III models how the ticket handlers of the three servers resolve    *)
(* the minutes and filter query parameters and what the fetch makes of     *)
(* them.                                                                   *)
(*                                                                         *)
(* Part IV models the script's oracle analysis analyzeTicketsWithPuter and *)
(* the fallback of main to the local analyzer.                             *)
(*                                                                         *)
(* Part V models the paginated fetch of the API-key servers                *)
(* (src/unnamed/part_000) and the error responses of their handlers.       *)
(***************************************************************************)
EXTENDS Integers, Sequences, FiniteSets, TLC

VARIABLES
    sessionCookies,   \* server.js:22  cached cookie string (NULL or a cookie id)
    lastLoginTime,    \* server.js:23  Date.now() of the last successful login
    credentialsSet,   \* CONFIG.email && CONFIG.password (fixed at start-up)
    now,              \* the clock read by Date.now()
    ticks,            \* number of clock advances so far
    cookiesIssued,    \* number of cookie strings handed out by the login page
    openBrowsers,     \* browsers launched and not yet closed
    reqs,             \* per request: position in the handler and its locals
    variant,          \* which of the repository's analyzers is running
    raw,              \* analyzer input: sequence of raw tickets
    analysis,         \* analyzer output (NoAnalysis before the call)
    body,             \* what a ticket handler sent after the analysis
    query,            \* req.query of a ticket request, and the server it reaches
    options,          \* the options the handler passes to fetchTicketsFromAPI
    fetchQuery,       \* the created_at condition of the page requests
    script,           \* the script's main workflow from the fetched tickets on
    api               \* a ticket request of an API-key server

serverVars == <<sessionCookies, lastLoginTime, credentialsSet, now, ticks,
                cookiesIssued, openBrowsers, reqs>>
analyzerVars == <<variant, raw, analysis, body>>
queryVars == <<query, options, fetchQuery>>
scriptVars == <<script>>
apiVars == <<api>>
vars == <<sessionCookies, lastLoginTime, credentialsSet, now, ticks,
          cookiesIssued, openBrowsers, reqs, variant, raw, analysis, body,
          query, options, fetchQuery, script, api>>

(***************************************************************************)
(* Bounds                                                                  *)
(***************************************************************************)
MaxPages == 3
MaxTicks == 1
BootTime == 1
MaxTickets == 3
MaxPriority == 5
MaxOutbound == 3
MaxRespSecs == 150
MaxSubjectLen == 102
MaxQueryLen == 3
QueryClock == 208800000

(***************************************************************************)
(* Program constants                                                       *)
(***************************************************************************)
NULL == 0
SESSION_VALIDITY == 30 * 60 * 1000
PER_PAGE == 100
createdWithinMinutes == 1440
DayMs == 86400000

\* JavaScript values: undefined (an absent property), null, numbers, strings.
\* Str carries a string as a whole, Text carries it as the sequence of its
\* character codes,
\* Template is the template literal `${prefix}${arg}`.
undefined == [t |-> "undefined"]
null == [t |-> "null"]
Num(n) == [t |-> "number", n |-> n]
Str(s) == [t |-> "string", s |-> s]
Text(cs) == [t |-> "text", cs |-> cs]
Template(prefix, arg) == [t |-> "template", prefix |-> prefix, arg |-> arg]
NaN == [t |-> "NaN"]

\* ToBoolean
Truthy(v) ==
    CASE v.t = "undefined" -> FALSE
      [] v.t = "null" -> FALSE
      [] v.t = "number" -> v.n # 0
      [] v.t = "NaN" -> FALSE
      [] v.t = "string" -> v.s # ""
      [] v.t = "text" -> v.cs # <<>>
      [] OTHER -> TRUE

\* a || b
OrElse(a, b) == IF Truthy(a) THEN a ELSE b

\* o?.f
Chain(o, f) == IF o.t \in {"undefined", "null"} THEN undefined ELSE o[f]

\* Math.round(x / d) for a non-negative integer x: the nearest integer, a
\* half rounded up.  server.js:149
MathRound(x, d) == (2 * x + d) \div (2 * d)

\* Two requests, which may overlap in any way or run one after the other.
Requests == {1, 2}
Endpoints == {"/", "/api/tickets", "/api/login"}
PageSizes == {0, 42, PER_PAGE}
AuthDenied == {401, 403}
OtherHttpErrors == {500}
TickSteps == {SESSION_VALIDITY, SESSION_VALIDITY + 1}

MSG_MISSING == "Missing FRESHSERVICE_EMAIL or FRESHSERVICE_PASSWORD environment variables"
MSG_LOGIN_FAILED == "Login failed: Invalid credentials"
MSG_LOGIN_FAILED_TEXT == "Login failed: Incorrect email or password"
MSG_NO_SESSION == "No session. Login required."
MSG_RELOGIN_FAILED == "Session expired and re-login failed"
MSG_HTTP == "HTTP"
MSG_NETWORK == "fetch failed"
MSG_LAUNCH == "Failed to launch the browser process"
MSG_NAVIGATION == "Navigation timeout"
MSG_CLOSE == "Protocol error: Connection closed"
HINT == "Set FRESHSERVICE_EMAIL and FRESHSERVICE_PASSWORD environment variables"

\* error.message.includes('credentials') over the messages the server produces
includesCredentials(msg) == msg \in {MSG_LOGIN_FAILED}

\* The login page and a page behind it
LOGIN_URL == "https://yondrgroup.freshservice.com/support/login"
HOME_URL == "https://yondrgroup.freshservice.com/a/dashboard"

\* The test never finds /login in the URL.
includesLogin_never(url) == FALSE

\* currentUrl.includes('/login') over the URLs the browser can land on
includesLogin(url) == url \in {LOGIN_URL}

Error(msg, status) == [message |-> msg, status |-> status]
NoError == Error("", 0)

NoResponse == [status |-> 0, kind |-> "none", error |-> "", errorStatus |-> 0,
               hint |-> "", total_tickets |-> 0, tickets |-> <<>>,
               session_active |-> FALSE, session_age_minutes |-> null]

RECURSIVE TotalSize(_)
TotalSize(chunks) ==
    IF chunks = <<>> THEN 0
    ELSE chunks[1].size + TotalSize(Tail(chunks))


NoAnalysis == [done |-> FALSE]

\* No ticket handler has sent a response body yet.
NoBody == [endpoint |-> ""]

\* Before the handler has resolved its options and before the fetch has
\* built its query.
NoOptions == [t |-> "none"]
NoFetchQuery == [kind |-> "none", value |-> 0]

\* How a call of analyzeTicketsWithPuter ends.
Returned(v) == [kind |-> "return", value |-> v]
Thrown == [kind |-> "throw", value |-> undefined]
NoResult == [kind |-> "none", value |-> undefined]

\* The script before main has fetched its tickets.
NoSaved == [from |-> "none", oracle |-> undefined]
NoScript ==
    [pc |-> "idle", failed |-> {}, pending |-> NoResult, result |-> NoResult,
     saved |-> NoSaved, printed |-> NoSaved]

\* No ticket request is being resolved; the script is not running.
InitQueryIdle ==
    /\ query = [server |-> "cookie", minutes |-> undefined, filter |-> undefined]
    /\ options = NoOptions
    /\ fetchQuery = NoFetchQuery

InitScriptIdle == script = NoScript

\* The messages of the API-key servers: part_000:27, 111, 115, 603
MSG_API_MISSING == "Missing FRESHSERVICE_API_KEY environment variable"
MSG_API_401 == "Invalid API key. Please check your FRESHSERVICE_API_KEY."
MSG_API_403 == "Access denied. Your API key may not have permission to access tickets."
HINT_API == "Set FRESHSERVICE_API_KEY environment variable with your API key from Profile Settings"

\* No request has reached an API-key server.
NoApi ==
    [pc |-> "idle", server |-> "apikey", endpoint |-> "", keySet |-> TRUE,
     currentPage |-> 0, allTickets |-> <<>>, pageCalls |-> 0, lastStatus |-> 0,
     response |-> NoResponse]

InitApiIdle == api = NoApi

(***************************************************************************)
(* Part I: the cookie-mode server                                          *)
(***************************************************************************)

\* No page call in flight.
NoCall == [page |-> 0, per_page |-> 0, cookie |-> NULL]

\* A request before the framework has dispatched it.  Fields of a request:
\*   pc           where the handler is suspended: "new", "launch" (await
\*                getBrowser), "browser" (the login page is being driven),
\*                "closing" (await browser.close), "fetch" (await fetch), "done"
\*   caller       who called loginAndGetCookies: ensureValidSession ("ensure"),
\*                the re-login of fetchTicketsFromAPI ("relogin"), POST
\*                /api/login ("manual")
\*   loginError   the error the login is about to throw (NoError: it returns)
\*   currentUrl   the URL the login read after submitting ("" before that)
\*   returned     the value of the login's return statement (NULL before that)
\*   ensureNow    the local `now` of ensureValidSession
\*   retryOnAuth, currentPage, allTickets   locals of fetchTicketsFromAPI
\*   request      the page call in flight: page parameter and Cookie header
\*   loginCalls   calls of loginAndGetCookies made for this request
\*   relogins     those made by fetchTicketsFromAPI after a 401/403
\*   attempts     invocations of fetchTicketsFromAPI
\*   pageCalls    page calls issued by the current invocation
\*   lastResult   how the code classified the latest answer to a page call
\*   lastStatus   the HTTP status of that answer; 401 and 403, which the
\*                code does not tell apart, are both kept as 401
\*   response     what the handler sent
NewRequestState ==
    [pc |-> "new", endpoint |-> "", caller |-> "none", loginError |-> NoError,
     currentUrl |-> "", returned |-> NULL,
     retryOnAuth |-> TRUE, currentPage |-> 0, allTickets |-> <<>>,
     ensureNow |-> 0, loginCalls |-> 0, relogins |-> 0, attempts |-> 0,
     pageCalls |-> 0, request |-> NoCall,
     lastResult |-> "none", lastStatus |-> 0, response |-> NoResponse]

\* The age compared with >= instead of >.
sessionExpired_inclusive ==
    sessionCookies = NULL \/ now - lastLoginTime >= SESSION_VALIDITY

\* Only the age decides, not whether a session is cached.
sessionExpired_ageOnly ==
    now - lastLoginTime > SESSION_VALIDITY

\* server.js:133
sessionExpired ==
    sessionCookies = NULL \/ now - lastLoginTime > SESSION_VALIDITY

\* The error response carries the tickets fetched before the failure.
TicketsCatch_partial(r, err) ==
    [r EXCEPT !.pc = "done",
              !.response = [NoResponse EXCEPT
                  !.status = 500, !.kind = "error",
                  !.error = err.message, !.errorStatus = err.status,
                  !.hint = IF includesCredentials(err.message) THEN HINT ELSE "",
                  !.total_tickets = TotalSize(r.allTickets),
                  !.tickets = r.allTickets]]

\* catch block of GET /api/tickets, server.js:343-350
TicketsCatch(r, err) ==
    [r EXCEPT !.pc = "done",
              !.response = [NoResponse EXCEPT
                  !.status = 500, !.kind = "error",
                  !.error = err.message, !.errorStatus = err.status,
                  !.hint = IF includesCredentials(err.message) THEN HINT ELSE ""]]

\* catch block of POST /api/login, server.js:316-322
LoginCatch(r, err) ==
    [r EXCEPT !.pc = "done",
              !.response = [NoResponse EXCEPT
                  !.status = 401, !.kind = "login_failed",
                  !.error = err.message, !.errorStatus = err.status]]

\* An error thrown below a handler reaches that handler's catch block.
Throw(r, err) ==
    IF r.endpoint = "/api/login" THEN LoginCatch(r, err) ELSE TicketsCatch(r, err)

\* One iteration of the while loop up to its await: server.js:203-228.
\* The Cookie header is the value of the global at the time of the call.
IssuePage(r, cookies) ==
    [r EXCEPT !.pc = "fetch",
              !.pageCalls = @ + 1,
              !.request = [page |-> r.currentPage, per_page |-> PER_PAGE,
                           cookie |-> cookies]]

\* The retried invocation keeps what the first one had accumulated.
EnterFetch_keepPages(r, cookies, retry) ==
    LET e == [r EXCEPT !.attempts = @ + 1, !.retryOnAuth = retry,
                       !.currentPage = 1, !.pageCalls = 0]
    IN  IF cookies = NULL
        THEN Throw(e, Error(MSG_NO_SESSION, 0))
        ELSE IssuePage(e, cookies)

\* The null check of the session is missing.
EnterFetch_noCheck(r, cookies, retry) ==
    LET e == [r EXCEPT !.attempts = @ + 1, !.retryOnAuth = retry,
                       !.currentPage = 1, !.allTickets = <<>>,
                       !.pageCalls = 0]
    IN  IssuePage(e, cookies)

\* Every invocation may re-login, the retried one included.
EnterFetch_retryAlways(r, cookies, retry) ==
    LET e == [r EXCEPT !.attempts = @ + 1, !.retryOnAuth = TRUE,
                       !.currentPage = 1, !.allTickets = <<>>,
                       !.pageCalls = 0]
    IN  IF cookies = NULL
        THEN Throw(e, Error(MSG_NO_SESSION, 0))
        ELSE IssuePage(e, cookies)

\* The retried invocation goes on at the page the first one had reached.
EnterFetch_resume(r, cookies, retry) ==
    LET e == [r EXCEPT !.attempts = @ + 1, !.retryOnAuth = retry,
                       !.currentPage = IF @ = 0 THEN 1 ELSE @,
                       !.allTickets = <<>>, !.pageCalls = 0]
    IN  IF cookies = NULL
        THEN Throw(e, Error(MSG_NO_SESSION, 0))
        ELSE IssuePage(e, cookies)

\* Entry of fetchTicketsFromAPI(options, retryOnAuth): server.js:184-201,
\* followed by the first loop iteration.
EnterFetch(r, cookies, retry) ==
    LET e == [r EXCEPT !.attempts = @ + 1, !.retryOnAuth = retry,
                       !.currentPage = 1, !.allTickets = <<>>,
                       !.pageCalls = 0]
    IN  IF cookies = NULL
        THEN Throw(e, Error(MSG_NO_SESSION, 0))
        ELSE IssuePage(e, cookies)

\* The handler sends what every request has collected so far.
SendAnalysis_shared(r) ==
    LET all == reqs[1].allTickets \o reqs[2].allTickets \o r.allTickets
    IN  [r EXCEPT !.pc = "done",
                  !.response = [NoResponse EXCEPT
                      !.status = 200, !.kind = "analysis",
                      !.total_tickets = TotalSize(all),
                      !.tickets = all]]

\* Steps 2 and 3 of GET /api/tickets after a successful fetch: server.js:336-339
SendAnalysis(r) ==
    [r EXCEPT !.pc = "done",
              !.response = [NoResponse EXCEPT
                  !.status = 200, !.kind = "analysis",
                  !.total_tickets = TotalSize(r.allTickets),
                  !.tickets = r.allTickets]]

\* The re-login retries with retryOnAuth left at its default, true.
LoginReturns_retryAgain(r, err, cookies) ==
    IF err # NoError THEN Throw(r, err)
    ELSE CASE r.caller = "ensure"  -> EnterFetch(r, cookies, TRUE)
           [] r.caller = "relogin" -> EnterFetch(r, cookies, TRUE)
           [] OTHER -> [r EXCEPT !.pc = "done",
                          !.response = [NoResponse EXCEPT
                              !.status = 200, !.kind = "login_ok",
                              !.session_active = cookies # NULL]]

\* What the caller of loginAndGetCookies does once the login has settled:
\* ensureValidSession + handler (server.js:330-333), the re-login in
\* fetchTicketsFromAPI (server.js:234-235), POST /api/login (server.js:310-315).
LoginReturns(r, err, cookies) ==
    IF err # NoError THEN Throw(r, err)
    ELSE CASE r.caller = "ensure"  -> EnterFetch(r, cookies, TRUE)
           [] r.caller = "relogin" -> EnterFetch(r, cookies, FALSE)
           [] OTHER -> [r EXCEPT !.pc = "done",
                          !.response = [NoResponse EXCEPT
                              !.status = 200, !.kind = "login_ok",
                              !.session_active = cookies # NULL]]

\* The browser is launched before the configuration is looked at.
StartLogin_launchFirst(r, who) ==
    [r EXCEPT !.caller = who, !.loginCalls = @ + 1,
              !.relogins = IF who = "relogin" THEN @ + 1 ELSE @,
              !.pc = "launch"]

\* Call of loginAndGetCookies up to its first await: server.js:53-62
StartLogin(r, who) ==
    LET c == [r EXCEPT !.caller = who, !.loginCalls = @ + 1,
                       !.relogins = IF who = "relogin" THEN @ + 1 ELSE @]
    IN  IF ~credentialsSet
        THEN LoginReturns(c, Error(MSG_MISSING, 0), sessionCookies)
        ELSE [c EXCEPT !.pc = "launch"]

\* No login is started while the login of another request is in flight.
ensureValidSession_singleFlight(r) ==
    LET e == [r EXCEPT !.ensureNow = now]
    IN  IF sessionExpired
           /\ \A q \in Requests : reqs[q].pc \notin {"launch", "browser", "closing"}
        THEN StartLogin(e, "ensure")
        ELSE EnterFetch(e, sessionCookies, TRUE)

\* ensureValidSession: server.js:131-139, then the handler goes on to the fetch
ensureValidSession(r) ==
    LET e == [r EXCEPT !.ensureNow = now]
    IN  IF sessionExpired
        THEN StartLogin(e, "ensure")
        ELSE EnterFetch(e, sessionCookies, TRUE)

Init ==
    /\ sessionCookies = NULL
    /\ lastLoginTime = 0
    /\ credentialsSet \in BOOLEAN
    /\ now = BootTime
    /\ ticks = 0
    /\ cookiesIssued = 0
    /\ openBrowsers = 0
    /\ reqs = [p \in Requests |-> NewRequestState]
    /\ variant = "server"
    /\ raw = <<>>
    /\ analysis = NoAnalysis
    /\ body = NoBody
    /\ InitQueryIdle
    /\ InitScriptIdle
    /\ InitApiIdle

\* GET /: server.js:264-304.  The handler has no await; it reports whether a
\* session is cached and how old it is.
HealthCheck(r) ==
    [r EXCEPT !.pc = "done",
              !.response = [NoResponse EXCEPT
                  !.status = 200, !.kind = "health",
                  !.session_active = sessionCookies # NULL,
                  !.session_age_minutes =
                      IF sessionCookies # NULL
                      THEN Num(MathRound(now - lastLoginTime, 60000))
                      ELSE null]]

\* POST /api/login logs in only when no valid session is cached.
NewRequest_whenExpired(p, ep) ==
    /\ reqs[p].pc = "new"
    /\ IF p = 1 THEN TRUE ELSE reqs[p - 1].pc # "new"
    /\ LET r == [reqs[p] EXCEPT !.endpoint = ep]
       IN  reqs' = [reqs EXCEPT ![p] =
               IF ep = "/" THEN HealthCheck(r)
               ELSE IF ep = "/api/login"
               THEN IF sessionExpired THEN StartLogin(r, "manual")
                    ELSE LoginReturns([r EXCEPT !.caller = "manual"],
                                      NoError, sessionCookies)
               ELSE ensureValidSession(r)]
    /\ UNCHANGED <<sessionCookies, lastLoginTime, credentialsSet, now, ticks,
                   cookiesIssued, openBrowsers>>

\* A request arrives; requests are numbered in their order of arrival.
\* GET /: server.js:264.  GET /api/tickets: server.js:325-333.
\* POST /api/login: server.js:306-310.
NewRequest(p, ep) ==
    /\ reqs[p].pc = "new"
    /\ IF p = 1 THEN TRUE ELSE reqs[p - 1].pc # "new"
    /\ LET r == [reqs[p] EXCEPT !.endpoint = ep]
       IN  reqs' = [reqs EXCEPT ![p] =
               IF ep = "/" THEN HealthCheck(r)
               ELSE IF ep = "/api/login" THEN StartLogin(r, "manual")
               ELSE ensureValidSession(r)]
    /\ UNCHANGED <<sessionCookies, lastLoginTime, credentialsSet, now, ticks,
                   cookiesIssued, openBrowsers>>

\* await getBrowser() settles: server.js:62, 32-51.  When the launch fails
\* there is no browser to close (server.js:124).
LaunchBrowser(p, ok) ==
    /\ reqs[p].pc = "launch"
    /\ IF ok
       THEN /\ reqs' = [reqs EXCEPT ![p].pc = "browser"]
            /\ openBrowsers' = openBrowsers + 1
       ELSE /\ reqs' = [reqs EXCEPT ![p] =
                   LoginReturns(reqs[p], Error(MSG_LAUNCH, 0), sessionCookies)]
            /\ UNCHANGED openBrowsers
    /\ UNCHANGED <<sessionCookies, lastLoginTime, credentialsSet, now, ticks,
                   cookiesIssued>>

\* The login page is driven to its outcome: server.js:63-118.
\*   "cookies"          the browser landed behind the login page
\*   "still_login"      the browser is still on the login page, which shows
\*                      no error element
\*   "still_login_text" the same, and the page shows an error text
\*   "error"            a navigation or selector step threw before the URL
\*                      was read
\* Every outcome goes through the finally block (server.js:123-128).
LoginOutcomes == {"cookies", "still_login", "still_login_text", "error"}

\* page.url() after submitting: server.js:103
LandingUrl(outcome) == IF outcome = "cookies" THEN HOME_URL ELSE LOGIN_URL

\* `Login failed: ${errorText || 'Invalid credentials'}`: server.js:105-109
LoginFailedMessage(outcome) ==
    IF outcome = "still_login_text" THEN MSG_LOGIN_FAILED_TEXT
    ELSE MSG_LOGIN_FAILED

\* A successful login stores the cookie string only.
LoginPage_cookiesOnly(p, outcome) ==
    /\ reqs[p].pc = "browser"
    /\ IF outcome = "error"
       THEN /\ reqs' = [reqs EXCEPT ![p].pc = "closing",
                   ![p].loginError = Error(MSG_NAVIGATION, 0)]
            /\ UNCHANGED <<sessionCookies, cookiesIssued, lastLoginTime>>
       ELSE IF includesLogin(LandingUrl(outcome))
       THEN /\ reqs' = [reqs EXCEPT ![p].pc = "closing",
                   ![p].currentUrl = LandingUrl(outcome),
                   ![p].loginError = Error(LoginFailedMessage(outcome), 0)]
            /\ UNCHANGED <<sessionCookies, cookiesIssued, lastLoginTime>>
       ELSE /\ sessionCookies' = cookiesIssued + 1
            /\ cookiesIssued' = cookiesIssued + 1
            /\ UNCHANGED lastLoginTime
            /\ reqs' = [reqs EXCEPT ![p].pc = "closing",
                   ![p].currentUrl = LandingUrl(outcome),
                   ![p].loginError = NoError,
                   ![p].returned = cookiesIssued + 1]
    /\ UNCHANGED <<credentialsSet, now, ticks, openBrowsers>>

\* loginAndGetCookies behind the launch: server.js:63-118
LoginPage(p, outcome) ==
    /\ reqs[p].pc = "browser"
    /\ IF outcome = "error"
       THEN /\ reqs' = [reqs EXCEPT ![p].pc = "closing",
                   ![p].loginError = Error(MSG_NAVIGATION, 0)]
            /\ UNCHANGED <<sessionCookies, cookiesIssued, lastLoginTime>>
       ELSE IF includesLogin(LandingUrl(outcome))
       THEN /\ reqs' = [reqs EXCEPT ![p].pc = "closing",
                   ![p].currentUrl = LandingUrl(outcome),
                   ![p].loginError = Error(LoginFailedMessage(outcome), 0)]
            /\ UNCHANGED <<sessionCookies, cookiesIssued, lastLoginTime>>
       ELSE /\ sessionCookies' = cookiesIssued + 1
            /\ cookiesIssued' = cookiesIssued + 1
            /\ lastLoginTime' = now
            /\ reqs' = [reqs EXCEPT ![p].pc = "closing",
                   ![p].currentUrl = LandingUrl(outcome),
                   ![p].loginError = NoError,
                   ![p].returned = cookiesIssued + 1]
    /\ UNCHANGED <<credentialsSet, now, ticks, openBrowsers>>

\* The browser is closed on the success path only.
CloseBrowser_onSuccessOnly(p, ok) ==
    /\ reqs[p].pc = "closing"
    /\ openBrowsers' = IF reqs[p].loginError = NoError
                       THEN openBrowsers - 1 ELSE openBrowsers
    /\ reqs' = [reqs EXCEPT ![p] =
           LoginReturns([reqs[p] EXCEPT !.currentUrl = "", !.returned = NULL],
                        IF ok THEN reqs[p].loginError ELSE Error(MSG_CLOSE, 0),
                        sessionCookies)]
    /\ UNCHANGED <<sessionCookies, lastLoginTime, credentialsSet, now, ticks,
                   cookiesIssued>>

\* await browser.close() settles and loginAndGetCookies returns or throws to
\* its caller, where its locals are gone: server.js:123-128.  When close()
\* itself rejects, its error leaves the finally block in place of the
\* pending return or throw.
CloseBrowser(p, ok) ==
    /\ reqs[p].pc = "closing"
    /\ openBrowsers' = openBrowsers - 1
    /\ reqs' = [reqs EXCEPT ![p] =
           LoginReturns([reqs[p] EXCEPT !.currentUrl = "", !.returned = NULL],
                        IF ok THEN reqs[p].loginError ELSE Error(MSG_CLOSE, 0),
                        sessionCookies)]
    /\ UNCHANGED <<sessionCookies, lastLoginTime, credentialsSet, now, ticks,
                   cookiesIssued>>


\* The loop does not look at the size of the page.
hasMore_always(size) == TRUE

\* The loop goes on until a page comes back empty.
hasMore_nonEmpty(size) == size > 0

\* server.js:249
hasMore(size) == size = PER_PAGE

\* The request's page call in flight is settled; result classifies the
\* answer as the code does (server.js:230, 240), status is response.status
\* (0 when there is no response).
Settle(r, result, status) ==
    [r EXCEPT !.request = NoCall, !.lastResult = result, !.lastStatus = status]

\* Every status but 200 is taken for a lost session.
Classify_deniedUnlessOk(status) ==
    IF status # 200 THEN "denied" ELSE "ok"

\* server.js:230, 240
Classify(status) ==
    IF status \in AuthDenied THEN "denied"
    ELSE IF status # 200 THEN "http_error" ELSE "ok"

\* A failed page call drops the cached session.
NetworkError_dropsSession(p) ==
    /\ reqs[p].pc = "fetch"
    /\ reqs' = [reqs EXCEPT ![p] =
           Throw(Settle(reqs[p], "network_error", 0), Error(MSG_NETWORK, 0))]
    /\ sessionCookies' = NULL
    /\ UNCHANGED <<lastLoginTime, credentialsSet, now, ticks,
                   cookiesIssued, openBrowsers>>

\* fetch(url) rejects, or reading the body fails: the catch block logs and
\* rethrows, server.js:252-255.
NetworkError(p) ==
    /\ reqs[p].pc = "fetch"
    /\ reqs' = [reqs EXCEPT ![p] =
           Throw(Settle(reqs[p], "network_error", 0), Error(MSG_NETWORK, 0))]
    /\ UNCHANGED <<sessionCookies, lastLoginTime, credentialsSet, now, ticks,
                   cookiesIssued, openBrowsers>>

\* The upstream answers the pending page call with an HTTP status and, for
\* a 200, a page of `size` tickets: server.js:230-250, then the next loop
\* iteration (server.js:203-228) or the return (server.js:258-259).
\* The upstream serves full pages only below page MaxPages.
PageResponse(p, status, size) ==
    /\ reqs[p].pc = "fetch"
    /\ status = 200 \/ size = 0
    /\ size = PER_PAGE => reqs[p].currentPage < MaxPages
    /\ LET r == Settle(reqs[p], Classify(status),
                       IF status \in AuthDenied THEN 401 ELSE status)
       IN  IF r.lastResult = "denied"
           THEN IF r.retryOnAuth
                THEN /\ sessionCookies' = NULL
                     /\ reqs' = [reqs EXCEPT ![p] = StartLogin(r, "relogin")]
                ELSE /\ reqs' = [reqs EXCEPT ![p] =
                            Throw(r, Error(MSG_RELOGIN_FAILED, 0))]
                     /\ UNCHANGED sessionCookies
           ELSE /\ UNCHANGED sessionCookies
                /\ IF r.lastResult = "http_error"
                   THEN reqs' = [reqs EXCEPT ![p] = Throw(r, Error(MSG_HTTP, status))]
                   ELSE LET chunk == [req |-> p, attempt |-> r.attempts,
                                      page |-> r.currentPage, size |-> size]
                            a == [r EXCEPT !.allTickets = Append(@, chunk),
                                           !.currentPage = @ + 1]
                        IN  reqs' = [reqs EXCEPT ![p] =
                                IF hasMore(size) THEN IssuePage(a, sessionCookies)
                                ELSE SendAnalysis(a)]
    /\ UNCHANGED <<lastLoginTime, credentialsSet, now, ticks, cookiesIssued,
                   openBrowsers>>

\* Time passes.
Tick(d) ==
    /\ ticks < MaxTicks
    /\ now' = now + d
    /\ ticks' = ticks + 1
    /\ UNCHANGED <<sessionCookies, lastLoginTime, credentialsSet, cookiesIssued,
                   openBrowsers, reqs>>

Next ==
    \/ \E p \in Requests, ep \in Endpoints : NewRequest(p, ep) /\ UNCHANGED <<analyzerVars, queryVars, scriptVars, apiVars>>
    \/ \E p \in Requests, ok \in BOOLEAN : LaunchBrowser(p, ok) /\ UNCHANGED <<analyzerVars, queryVars, scriptVars, apiVars>>
    \/ \E p \in Requests, o \in LoginOutcomes : LoginPage(p, o) /\ UNCHANGED <<analyzerVars, queryVars, scriptVars, apiVars>>
    \/ \E p \in Requests, ok \in BOOLEAN : CloseBrowser(p, ok) /\ UNCHANGED <<analyzerVars, queryVars, scriptVars, apiVars>>
    \/ \E p \in Requests : NetworkError(p) /\ UNCHANGED <<analyzerVars, queryVars, scriptVars, apiVars>>
    \/ \E p \in Requests, st \in {200} \cup AuthDenied \cup OtherHttpErrors,
          n \in PageSizes :
             PageResponse(p, st, n) /\ UNCHANGED <<analyzerVars, queryVars, scriptVars, apiVars>>
    \/ \E d \in TickSteps : Tick(d) /\ UNCHANGED <<analyzerVars, queryVars, scriptVars, apiVars>>

Spec == Init /\ [][Next]_vars

TypeOK ==
    /\ sessionCookies \in 0..cookiesIssued
    /\ openBrowsers \in 0..Cardinality(Requests)


(***************************************************************************)
(* Part II: analyzeTickets on JavaScript values                            *)
(***************************************************************************)

\* The characters before index n - 1.
substring_short(s, n) ==
    IF s.t \in {"undefined", "null"} THEN undefined
    ELSE Text(SubSeq(s.cs, 1, IF Len(s.cs) < n - 1 THEN Len(s.cs) ELSE n - 1))

\* s?.substring(0, n): server.js:154
substring(s, n) ==
    IF s.t \in {"undefined", "null"} THEN undefined
    ELSE Text(SubSeq(s.cs, 1, IF Len(s.cs) < n THEN Len(s.cs) ELSE n))

\* The lowest urgency carries a label of its own.
priorityMap_lowAsP5 == (1 :> "P5") @@ (2 :> "P3") @@ (3 :> "P2") @@ (4 :> "P1")

\* The labels in the order of the codes, not inverted.
priorityMap_straight == (1 :> "P1") @@ (2 :> "P2") @@ (3 :> "P3") @@ (4 :> "P4")

\* server.js:144
priorityMap == (1 :> "P4") @@ (2 :> "P3") @@ (3 :> "P2") @@ (4 :> "P1")

\* priorityMap[key]: a property that is not in the object reads as undefined
priorityMapGet(key) ==
    IF key.t = "number" /\ key.n \in DOMAIN priorityMap
    THEN Str(priorityMap[key.n])
    ELSE undefined

\* part_000:37
statusMap == (2 :> "Open") @@ (3 :> "Pending") @@ (4 :> "Resolved") @@ (5 :> "Closed")

\* statusMap[key]
statusMapGet(key) ==
    IF key.t = "number" /\ key.n \in DOMAIN statusMap
    THEN Str(statusMap[key.n])
    ELSE undefined

\* The outbound count compared with < instead of <=.
isFresh_strict(t) ==
    /\ ~Truthy(Chain(t.stats, "agent_responded_at"))
    /\ OrElse(Chain(t.stats, "outbound_count"), Num(0)).n < 1

\* server.js:147
isFresh(t) ==
    /\ ~Truthy(Chain(t.stats, "agent_responded_at"))
    /\ OrElse(Chain(t.stats, "outbound_count"), Num(0)).n <= 1

\* server.js:148-150
respTime(t) ==
    IF Truthy(Chain(t.stats, "first_resp_time_in_secs"))
    THEN Num(MathRound(t.stats.first_resp_time_in_secs.n, 60))
    ELSE null

\* The callback of tickets.map in the cookie-mode server: server.js:146-164
analyzeTicket(t) ==
    [ticket_id |-> OrElse(t.human_display_id, Template("#", t.id)),
     subject |-> OrElse(substring(t.subject, 100), Str("No subject")),
     priority |-> OrElse(priorityMapGet(t.priority), Str("P4")).s,
     requester_name |-> OrElse(Chain(t.requester, "name"), Str("Unknown")),
     requester_location |->
         OrElse(Chain(t.requester, "location_name"), Str("Unknown")),
     status |-> OrElse(Chain(t.ticket_status, "name"), Str("Unknown")),
     attendance_status |-> IF isFresh(t) THEN "FRESH" ELSE "REPLIED",
     response_time_minutes |-> respTime(t),
     created_at |-> t.created_at,
     updated_at |-> t.updated_at]

\* The callback of tickets.map in the API-key server: part_000:39-57
analyzeTicketApiKey(t) ==
    [ticket_id |-> Template("#", t.id),
     subject |-> OrElse(substring(t.subject, 100), Str("No subject")),
     priority |-> OrElse(priorityMapGet(t.priority), Str("P4")).s,
     requester_id |-> t.requester_id,
     requester_name |-> OrElse(Chain(t.requester, "name"), Str("Unknown")),
     status |-> OrElse(statusMapGet(t.status), Template("Status ", t.status)),
     attendance_status |-> IF isFresh(t) THEN "FRESH" ELSE "REPLIED",
     response_time_minutes |-> respTime(t),
     created_at |-> t.created_at,
     updated_at |-> t.updated_at]

\* The callback of tickets.map in the script: freshservice-automation:42-60
analyzeTicketLocally(t) ==
    [ticket_id |-> OrElse(t.human_display_id, Template("#", t.id)),
     subject |-> OrElse(substring(t.subject, 80), Str("No subject")),
     priority |-> OrElse(priorityMapGet(t.priority), Str("P4")).s,
     requester_name |-> OrElse(Chain(t.requester, "name"), Str("Unknown")),
     requester_location |->
         OrElse(Chain(t.requester, "location_name"), Str("Unknown")),
     status |-> OrElse(Chain(t.ticket_status, "name"), Str("Unknown")),
     attendance_status |-> IF isFresh(t) THEN "FRESH" ELSE "REPLIED",
     first_response_at |-> OrElse(Chain(t.stats, "first_responded_at"), null),
     response_time_minutes |-> respTime(t),
     urgency_assessment |->
         IF isFresh(t) THEN "Needs immediate attention" ELSE "Being handled",
     recommendation |->
         IF isFresh(t) THEN "Assign and respond ASAP" ELSE "Monitor progress"]

\* The three analyzers of the repository differ in the map callback only.
Variants == {"server", "apikey", "script"}
MapCallback(t) ==
    CASE variant = "server" -> analyzeTicket(t)
      [] variant = "apikey" -> analyzeTicketApiKey(t)
      [] variant = "script" -> analyzeTicketLocally(t)

\* The filter keeps the entries that do not carry the value.
CountWhere_negated(analyzedTickets, field, value) ==
    Len(SelectSeq(analyzedTickets, LAMBDA a : a[field] # value))

\* analyzedTickets.filter(...).length over one field
CountWhere(analyzedTickets, field, value) ==
    Len(SelectSeq(analyzedTickets, LAMBDA a : a[field] = value))

\* new Date().toISOString() at the time of the analysis
AnalysisTime == Str("2024-01-02T00:00:00.000Z")

\* server.js:141-182
analyzeTickets(tickets) ==
    LET analyzedTickets == [i \in 1..Len(tickets) |-> MapCallback(tickets[i])]
    IN  [done |-> TRUE,
         analysis_timestamp |-> AnalysisTime,
         total_tickets |-> Len(tickets),
         summary |->
            [fresh_tickets |-> CountWhere(analyzedTickets, "attendance_status", "FRESH"),
             replied_tickets |-> CountWhere(analyzedTickets, "attendance_status", "REPLIED"),
             p1_count |-> CountWhere(analyzedTickets, "priority", "P1"),
             p2_count |-> CountWhere(analyzedTickets, "priority", "P2"),
             p3_count |-> CountWhere(analyzedTickets, "priority", "P3"),
             p4_count |-> CountWhere(analyzedTickets, "priority", "P4")],
         tickets |-> analyzedTickets]

\* The filter keeps the tickets an agent has replied to.
freshTickets_replied(a) ==
    SelectSeq(a.tickets, LAMBDA x : x.attendance_status = "REPLIED")

\* analysis.tickets.filter(t => t.attendance_status === 'FRESH'): server.js:362
freshTickets(a) ==
    SelectSeq(a.tickets, LAMBDA x : x.attendance_status = "FRESH")

\* What the three ticket handlers send after a successful analysis:
\* server.js:339, 366-370, 387-391
TicketEndpoints == {"/api/tickets", "/api/tickets/fresh", "/api/tickets/summary"}
ResponseBody(ep, a) ==
    CASE ep = "/api/tickets" ->
             [endpoint |-> ep,
              analysis_timestamp |-> a.analysis_timestamp,
              total_tickets |-> a.total_tickets,
              summary |-> a.summary,
              tickets |-> a.tickets]
      [] ep = "/api/tickets/fresh" ->
             [endpoint |-> ep,
              analysis_timestamp |-> a.analysis_timestamp,
              total_fresh |-> Len(freshTickets(a)),
              tickets |-> freshTickets(a)]
      [] ep = "/api/tickets/summary" ->
             [endpoint |-> ep,
              analysis_timestamp |-> a.analysis_timestamp,
              total_tickets |-> a.total_tickets,
              summary |-> a.summary]

\* Raw tickets as the upstream API delivers them.  A property the upstream
\* left out reads as undefined.
Timestamp == Str("2024-01-01T00:00:00Z")
Stat(a, c) ==
    [t |-> "object", agent_responded_at |-> a, outbound_count |-> c,
     first_resp_time_in_secs |-> undefined, first_responded_at |-> undefined]
Requester(name, location) ==
    [t |-> "object", name |-> name, location_name |-> location]
TicketStatus(name) == [t |-> "object", name |-> name]

\* A ticket with an id and nothing else.
BaseTicket ==
    [id |-> Num(7), human_display_id |-> undefined, subject |-> undefined,
     priority |-> undefined, requester_id |-> undefined,
     requester |-> undefined, ticket_status |-> undefined,
     status |-> undefined, stats |-> undefined,
     created_at |-> undefined, updated_at |-> undefined]

\* A ticket with every property set; the subject is the word "Printer",
\* given by its character codes.
FullTicket ==
    [id |-> Num(8), human_display_id |-> Str("INC-8"),
     subject |-> Text(<<80, 114, 105, 110, 116, 101, 114>>),
     priority |-> Num(3), requester_id |-> Num(11),
     requester |-> Requester(Str("Asha"), Str("Pune")),
     ticket_status |-> TicketStatus(Str("Open")),
     status |-> Num(2),
     stats |-> [Stat(Timestamp, Num(2)) EXCEPT
                   !.first_resp_time_in_secs = Num(90),
                   !.first_responded_at = Timestamp],
     created_at |-> Timestamp, updated_at |-> Timestamp]

\* Every priority with every freshness.
RawPriorities == {undefined, null} \cup {Num(n) : n \in 0..MaxPriority}
RawStats ==
    {undefined} \cup
    {Stat(a, c) :
        a \in {undefined, null, Timestamp},
        c \in {undefined} \cup {Num(n) : n \in 0..MaxOutbound}}
ClassTickets ==
    {[BaseTicket EXCEPT !.priority = p, !.stats = s] :
        p \in RawPriorities, s \in RawStats}

\* Every first response time up to MaxRespSecs seconds, and none.
RespTimes == {undefined, null} \cup {Num(n) : n \in 0..MaxRespSecs}
TimedTickets ==
    {[BaseTicket EXCEPT !.stats =
          [Stat(a, Num(1)) EXCEPT !.first_resp_time_in_secs = f,
                                  !.first_responded_at = a]] :
        f \in RespTimes, a \in {null, Timestamp}}

\* Every subject length up to MaxSubjectLen; the character at position i is
\* i, so that two different stretches of a subject differ.
Subjects ==
    {undefined, null} \cup
    {Text([i \in 1..n |-> i]) : n \in 0..MaxSubjectLen}
SubjectTickets == {[BaseTicket EXCEPT !.subject = s] : s \in Subjects}

\* Every subset of the optional properties missing.
FieldTickets ==
    [id : {Num(7)},
     human_display_id : {undefined, Str("INC-7")},
     subject : {undefined, Text(<<86, 80, 78>>)},
     priority : {undefined, Num(3)},
     requester_id : {Num(11)},
     requester : {undefined, null} \cup
                 {Requester(n, l) : n \in {undefined, Str("Asha")},
                                    l \in {undefined, Str("Pune")}},
     ticket_status : {undefined, TicketStatus(undefined), TicketStatus(Str("Open"))},
     status : {undefined, Num(2), Num(9)},
     stats : {undefined, Stat(null, Num(0)), FullTicket.stats},
     created_at : {Timestamp},
     updated_at : {Timestamp}]

RawTickets == ClassTickets \cup TimedTickets \cup SubjectTickets \cup FieldTickets

\* One raw ticket of each combination of priority label and freshness, among
\* them the two tickets of the end-to-end scenario, one ticket with nothing
\* but an id and one with every property.
SummaryTickets ==
    {[BaseTicket EXCEPT !.priority = p, !.stats = s] :
        p \in {undefined, Num(1), Num(2), Num(3), Num(4)},
        s \in {Stat(null, Num(0)), Stat(Timestamp, Num(3))}}
    \cup {BaseTicket, FullTicket}

InitServerIdle ==
    /\ sessionCookies = NULL
    /\ lastLoginTime = 0
    /\ credentialsSet = TRUE
    /\ now = BootTime
    /\ ticks = 0
    /\ cookiesIssued = 0
    /\ openBrowsers = 0
    /\ reqs = [p \in Requests |-> NewRequestState]

\* The analyzer is called on the tickets collected so far.
Analyze ==
    /\ ~analysis.done
    /\ analysis' = analyzeTickets(raw)
    /\ UNCHANGED <<variant, raw, body>>

\* One more raw ticket is part of the input.
AddTicket(t) ==
    /\ ~analysis.done
    /\ Len(raw) < MaxTickets
    /\ raw' = Append(raw, t)
    /\ UNCHANGED <<variant, analysis, body>>

\* A ticket handler of one of the servers sends its response.
Send(ep) ==
    /\ variant \in {"server", "apikey"}
    /\ analysis.done
    /\ body = NoBody
    /\ body' = ResponseBody(ep, analysis)
    /\ UNCHANGED <<variant, raw, analysis>>

\* analyzeTickets of each variant on every single raw ticket, alone, before
\* and after a second ticket
InitTicket ==
    /\ InitServerIdle
    /\ variant \in Variants
    /\ raw \in {<<t>> : t \in RawTickets}
           \cup {<<t, FullTicket>> : t \in RawTickets}
           \cup {<<FullTicket, t>> : t \in RawTickets}
    /\ analysis = NoAnalysis
    /\ body = NoBody
    /\ InitQueryIdle
    /\ InitScriptIdle
    /\ InitApiIdle

NextTicket == Analyze /\ UNCHANGED <<serverVars, queryVars, scriptVars, apiVars>>

SpecTicket == InitTicket /\ [][NextTicket]_vars

\* analyzeTickets of each variant on every sequence of up to MaxTickets raw
\* tickets, and the responses of the ticket handlers
InitAnalyze ==
    /\ InitServerIdle
    /\ variant \in Variants
    /\ raw = <<>>
    /\ analysis = NoAnalysis
    /\ body = NoBody
    /\ InitQueryIdle
    /\ InitScriptIdle
    /\ InitApiIdle

NextAnalyze ==
    \/ \E t \in SummaryTickets : AddTicket(t) /\ UNCHANGED <<serverVars, queryVars, scriptVars, apiVars>>
    \/ Analyze /\ UNCHANGED <<serverVars, queryVars, scriptVars, apiVars>>
    \/ \E ep \in TicketEndpoints : Send(ep) /\ UNCHANGED <<serverVars, queryVars, scriptVars, apiVars>>

SpecAnalyze == InitAnalyze /\ [][NextAnalyze]_vars


(***************************************************************************)
(* Part III: the query parameters of the ticket handlers                   *)
(***************************************************************************)

\* The characters a query parameter is made of here:
\* '0', '1', '-', 'a', 'x' and the space.
QueryChars == {48, 49, 45, 97, 120, 32}

\* Every string of at most MaxQueryLen of these characters.
QueryStrings ==
    UNION {[1..n -> QueryChars] : n \in 0..MaxQueryLen}

\* 'today' and 'week'
TODAY == <<116, 111, 100, 97, 121>>
WEEK == <<119, 101, 101, 107>>

\* ToString of a query parameter: an absent one reads 'undefined'.
ToStringJS(v) ==
    IF v.t = "text" THEN v.cs
    ELSE <<117, 110, 100, 101, 102, 105, 110, 101, 100>>

\* StrWhiteSpaceChar prefix removed
RECURSIVE TrimStart(_)
TrimStart(cs) ==
    IF cs # <<>> /\ Head(cs) = 32 THEN TrimStart(Tail(cs)) ELSE cs

\* The value of a character as a digit; 36 for a character that is no digit
\* in any radix.
DigitValue(c) ==
    CASE c \in 48..57 -> c - 48
      [] c \in 97..122 -> c - 87
      [] c \in 65..90 -> c - 55
      [] OTHER -> 36

\* The number written by the longest prefix of cs made of digits of radix R.
RECURSIVE ParseDigits(_, _, _)
ParseDigits(cs, R, acc) ==
    IF cs = <<>> \/ DigitValue(Head(cs)) >= R
    THEN acc
    ELSE ParseDigits(Tail(cs), R, acc * R + DigitValue(Head(cs)))

\* The built-in parseInt(string) without a radix argument.
parseInt(v) ==
    LET S == TrimStart(ToStringJS(v))
        negative == S # <<>> /\ Head(S) = 45
        unsigned == IF S # <<>> /\ Head(S) \in {43, 45} THEN Tail(S) ELSE S
        hex == Len(unsigned) >= 2 /\ unsigned[1] = 48 /\ unsigned[2] \in {88, 120}
        R == IF hex THEN 16 ELSE 10
        Z == IF hex THEN SubSeq(unsigned, 3, Len(unsigned)) ELSE unsigned
    IN  IF Z = <<>> \/ DigitValue(Head(Z)) >= R
        THEN NaN
        ELSE Num((IF negative THEN -1 ELSE 1) * ParseDigits(Z, R, 0))

\* The servers whose handlers read the query: the cookie-mode server, the
\* API-key server and the API-key server with the today filter.
QueryServers == {"cookie", "apikey", "today"}

\* const minutes = parseInt(req.query.minutes) || CONFIG.createdWithinMinutes
\* and, with the today filter, const filter = req.query.filter || null; the
\* object is the argument of fetchTicketsFromAPI.
ResolveOptions(server, q) ==
    [t |-> "object",
     minutes |-> OrElse(parseInt(q.minutes), Num(createdWithinMinutes)),
     filter |-> IF server = "today" THEN OrElse(q.filter, null) ELSE undefined]

\* Date.now() - minutes * 60 * 1000 as toISOString().split('.')[0] + 'Z'
\* writes it: the instant in whole seconds.
cutoffDate(minutes) == (QueryClock - minutes * 60 * 1000) \div 1000

\* getTodayMidnight(): the start of the current day; the process runs in UTC.
getTodayMidnight == (QueryClock - (QueryClock % DayMs)) \div 1000

\* The cutoff follows the minutes whenever they are given.
FetchQuery_minutesFirst(server, o) ==
    LET minutes == IF o.minutes = undefined
                   THEN Num(createdWithinMinutes) ELSE o.minutes
        filter == IF o.filter = undefined THEN null ELSE o.filter
    IN  CASE server = "cookie" ->
                 [kind |-> "minutes", value |-> minutes.n]
          [] server = "apikey" ->
                 [kind |-> "cutoff", value |-> cutoffDate(minutes.n)]
          [] server = "today" ->
                 IF filter = Text(TODAY) /\ minutes.n = createdWithinMinutes
                 THEN [kind |-> "cutoff", value |-> getTodayMidnight]
                 ELSE [kind |-> "cutoff", value |-> cutoffDate(minutes.n)]

\* The created_at condition fetchTicketsFromAPI builds from its options.
\* The cookie-mode server sends the minutes themselves, the API-key servers
\* a cutoff instant.
FetchQuery(server, o) ==
    LET minutes == IF o.minutes = undefined
                   THEN Num(createdWithinMinutes) ELSE o.minutes
        filter == IF o.filter = undefined THEN null ELSE o.filter
    IN  CASE server = "cookie" ->
                 [kind |-> "minutes", value |-> minutes.n]
          [] server = "apikey" ->
                 [kind |-> "cutoff", value |-> cutoffDate(minutes.n)]
          [] server = "today" ->
                 IF filter = Text(TODAY)
                 THEN [kind |-> "cutoff", value |-> getTodayMidnight]
                 ELSE [kind |-> "cutoff", value |-> cutoffDate(minutes.n)]

\* The first two lines of a ticket handler.
ResolveQuery ==
    /\ options = NoOptions
    /\ options' = ResolveOptions(query.server, query)
    /\ UNCHANGED <<query, fetchQuery>>

\* fetchTicketsFromAPI, from its entry to the first page request.
StartFetch ==
    /\ options # NoOptions
    /\ fetchQuery = NoFetchQuery
    /\ fetchQuery' = FetchQuery(query.server, options)
    /\ UNCHANGED <<query, options>>

\* A request to a ticket handler of each server, with every minutes
\* parameter and with a filter parameter that is absent, empty, 'today' or
\* 'week'
InitQuery ==
    /\ InitServerIdle
    /\ InitScriptIdle
    /\ InitApiIdle
    /\ variant = "server"
    /\ raw = <<>>
    /\ analysis = NoAnalysis
    /\ body = NoBody
    /\ query \in [server : QueryServers,
                  minutes : {undefined} \cup {Text(cs) : cs \in QueryStrings},
                  filter : {undefined, Text(<<>>), Text(TODAY), Text(WEEK)}]
    /\ options = NoOptions
    /\ fetchQuery = NoFetchQuery

NextQuery ==
    \/ ResolveQuery /\ UNCHANGED <<serverVars, analyzerVars, scriptVars, apiVars>>
    \/ StartFetch /\ UNCHANGED <<serverVars, analyzerVars, scriptVars, apiVars>>

SpecQuery == InitQuery /\ [][NextQuery]_vars

(***************************************************************************)
(* Part IV: the script's oracle analysis and its local fallback            *)
(***************************************************************************)

\* An object the oracle's reply parses to, by its total_tickets property.
OracleObject(total) == [t |-> "object", total_tickets |-> total]

\* What JSON.parse makes of the replies of the oracle: null, numbers, a
\* string, and objects whose total_tickets is missing, null, 0, '', 2 or '3'.
OracleValues ==
    {null, Num(0), Num(7), Text(<<111, 107>>),
     OracleObject(undefined), OracleObject(null), OracleObject(Num(0)),
     OracleObject(Text(<<>>)), OracleObject(Num(2)), OracleObject(Text(<<51>>))}

\* How the page's puter.ai.chat call ends: evaluate rejects, the call
\* reports an error, the reply is no JSON, or the reply parses to a value.
ChatReplies ==
    {[kind |-> k, value |-> undefined] : k \in {"rejects", "error", "unparseable"}}
    \cup {[kind |-> "parsed", value |-> v] : v \in OracleValues}

\* analysis.total_tickets of a value that is not null or undefined
GetTotal(v) == IF v.t = "object" THEN v.total_tickets ELSE undefined

\* The awaited calls of analyzeTicketsWithPuter before its try block, and
\* those inside it whose only outcomes are success and failure.
BeforeTry == {"newPage", "setViewport", "setUserAgent"}
PlainSteps ==
    {"loadCookies", "goto", "captchaWait", "captchaSave", "setContent", "puterLoad"}

\* The call that follows a successful one.
Following(step) ==
    CASE step = "newPage" -> "setViewport"
      [] step = "setViewport" -> "setUserAgent"
      [] step = "setUserAgent" -> "loadCookies"
      [] step = "loadCookies" -> "goto"
      [] step = "goto" -> "captchaCheck"
      [] step = "captchaWait" -> "captchaSave"
      [] step = "captchaSave" -> "setContent"
      [] step = "setContent" -> "puterLoad"
      [] step = "puterLoad" -> "chat"

\* main after fetchTickets: the oracle is asked only about a non-empty list.
MainStart ==
    /\ script.pc = "main"
    /\ script' = [script EXCEPT !.pc = IF Len(raw) > 0 THEN "newPage" ELSE "done"]
    /\ UNCHANGED analyzerVars

\* browser.newPage(), setViewport and setUserAgent are awaited before the
\* try block is entered: a rejection goes to the caller as it is.
OutsideTry(ok) ==
    /\ script.pc \in BeforeTry
    /\ script' =
          IF ok
          THEN [script EXCEPT !.pc = Following(script.pc)]
          ELSE [script EXCEPT !.pc = "mainCatch",
                              !.failed = @ \cup {script.pc},
                              !.result = Thrown]
    /\ UNCHANGED analyzerVars

\* An awaited call inside the try block: a rejection enters the catch block.
TryStep(ok) ==
    /\ script.pc \in PlainSteps
    /\ script' =
          IF ok
          THEN [script EXCEPT !.pc = Following(script.pc)]
          ELSE [script EXCEPT !.pc = "catch", !.failed = @ \cup {script.pc}]
    /\ UNCHANGED analyzerVars

\* The page is asked whether it shows a challenge.
CaptchaCheck(outcome) ==
    /\ script.pc = "captchaCheck"
    /\ script' =
          CASE outcome = "clear" -> [script EXCEPT !.pc = "setContent"]
            [] outcome = "captcha" -> [script EXCEPT !.pc = "captchaWait"]
            [] outcome = "error" ->
                   [script EXCEPT !.pc = "catch", !.failed = @ \cup {"captchaCheck"}]
    /\ UNCHANGED analyzerVars

\* The chat call and the parsing of its reply.
Chat(reply) ==
    /\ script.pc = "chat"
    /\ script' =
          CASE reply.kind \in {"rejects", "error"} ->
                   [script EXCEPT !.pc = "catch", !.failed = @ \cup {"chat"}]
            [] reply.kind = "unparseable" ->
                   [script EXCEPT !.pc = "finally",
                                  !.failed = @ \cup {"parse"},
                                  !.pending = Returned(null)]
            [] reply.kind = "parsed" ->
                   [script EXCEPT !.pc = "finally",
                                  !.pending = Returned(reply.value)]
    /\ UNCHANGED analyzerVars

\* The catch block: the error is logged, a screenshot is awaited, null is
\* returned.
Catch(ok) ==
    /\ script.pc = "catch"
    /\ script' =
          IF ok
          THEN [script EXCEPT !.pc = "finally", !.pending = Returned(null)]
          ELSE [script EXCEPT !.pc = "finally",
                              !.failed = @ \cup {"screenshot"},
                              !.pending = Thrown]
    /\ UNCHANGED analyzerVars

\* The finally block awaits aiPage.close(); its rejection replaces the
\* pending return or throw.
Finally(ok) ==
    /\ script.pc = "finally"
    /\ script' =
          IF ok
          THEN [script EXCEPT
                   !.pc = IF script.pending.kind = "return"
                          THEN "returned" ELSE "mainCatch",
                   !.result = script.pending]
          ELSE [script EXCEPT !.pc = "mainCatch",
                              !.failed = @ \cup {"close"},
                              !.result = Thrown]
    /\ UNCHANGED analyzerVars

\* The fallback is taken for a null result only.
MainFallback_nullOnly ==
    /\ script.pc = "returned"
    /\ LET a == script.result.value
           useLocal == a = null
           kept == IF useLocal
                   THEN [from |-> "local", oracle |-> undefined]
                   ELSE [from |-> "oracle", oracle |-> a]
       IN  /\ analysis' = IF useLocal THEN analyzeTickets(raw) ELSE analysis
           /\ script' = [script EXCEPT !.pc = "done",
                                       !.saved = kept, !.printed = kept]
    /\ UNCHANGED <<variant, raw, body>>

\* main: the fallback to analyzeTicketsLocally, then the analysis is written
\* to the analysis file and printed.
MainFallback ==
    /\ script.pc = "returned"
    /\ LET a == script.result.value
           useLocal == ~Truthy(a) \/ ~Truthy(GetTotal(a))
           kept == IF useLocal
                   THEN [from |-> "local", oracle |-> undefined]
                   ELSE [from |-> "oracle", oracle |-> a]
       IN  /\ analysis' = IF useLocal THEN analyzeTickets(raw) ELSE analysis
           /\ script' = [script EXCEPT !.pc = "done",
                                       !.saved = kept, !.printed = kept]
    /\ UNCHANGED <<variant, raw, body>>

\* main's catch block: the error is logged and nothing is saved.
MainCatch ==
    /\ script.pc = "mainCatch"
    /\ script' = [script EXCEPT !.pc = "done"]
    /\ UNCHANGED analyzerVars

\* The tickets fetchTickets returned.
FetchedTickets ==
    {<<>>, <<BaseTicket>>, <<FullTicket>>, <<BaseTicket, FullTicket>>}

InitScript ==
    /\ InitServerIdle
    /\ InitQueryIdle
    /\ variant = "script"
    /\ raw \in FetchedTickets
    /\ analysis = NoAnalysis
    /\ body = NoBody
    /\ script = [NoScript EXCEPT !.pc = "main"]
    /\ InitApiIdle

NextScript ==
    \/ MainStart /\ UNCHANGED <<serverVars, queryVars, apiVars>>
    \/ \E ok \in BOOLEAN : OutsideTry(ok) /\ UNCHANGED <<serverVars, queryVars, apiVars>>
    \/ \E ok \in BOOLEAN : TryStep(ok) /\ UNCHANGED <<serverVars, queryVars, apiVars>>
    \/ \E o \in {"clear", "captcha", "error"} :
          CaptchaCheck(o) /\ UNCHANGED <<serverVars, queryVars, apiVars>>
    \/ \E reply \in ChatReplies : Chat(reply) /\ UNCHANGED <<serverVars, queryVars, apiVars>>
    \/ \E ok \in BOOLEAN : Catch(ok) /\ UNCHANGED <<serverVars, queryVars, apiVars>>
    \/ \E ok \in BOOLEAN : Finally(ok) /\ UNCHANGED <<serverVars, queryVars, apiVars>>
    \/ MainFallback /\ UNCHANGED <<serverVars, queryVars, apiVars>>
    \/ MainCatch /\ UNCHANGED <<serverVars, queryVars, apiVars>>

SpecScript == InitScript /\ [][NextScript]_vars

(***************************************************************************)
(* Part V: the paginated fetch of the API-key servers                      *)
(***************************************************************************)

\* error.message.includes('API key')
includesApiKey(msg) == msg \in {MSG_API_401, MSG_API_403}

\* The two API-key servers of part_000 and the statuses their upstream
\* answers with.
ApiServers == {"apikey", "today"}
ApiStatuses == {200, 401, 403, 500}

\* The catch block of a ticket handler: /api/tickets adds a hint, the other
\* two send the error only.
ApiCatch(a, msg, status) ==
    [a EXCEPT !.pc = "done",
              !.response = [NoResponse EXCEPT
                  !.status = 500, !.kind = "error",
                  !.error = msg, !.errorStatus = status,
                  !.hint = IF a.endpoint = "/api/tickets" /\ includesApiKey(msg)
                           THEN HINT_API ELSE ""]]

\* One iteration of the while loop up to its await.
ApiIssuePage(a) == [a EXCEPT !.pc = "fetch", !.pageCalls = @ + 1]

\* tickets.length < 100 ends the loop.
ApiHasMore(size) == ~(size < PER_PAGE)

\* A ticket handler calls fetchTicketsFromAPI: getAuthHeader() throws
\* without an API key, otherwise the first page is requested.
ApiRequest ==
    /\ api.pc = "new"
    /\ api' = IF ~api.keySet
              THEN ApiCatch(api, MSG_API_MISSING, 0)
              ELSE ApiIssuePage([api EXCEPT !.currentPage = 1])

\* fetch(url) rejects or the body cannot be read: the catch block rethrows.
ApiNetworkError ==
    /\ api.pc = "fetch"
    /\ api' = ApiCatch(api, MSG_NETWORK, 0)

\* A 401 or 403 is answered by asking for the page again.
ApiPageResponse_retry(status, size) ==
    /\ api.pc = "fetch"
    /\ status = 200 \/ size = 0
    /\ size = PER_PAGE => api.currentPage < MaxPages
    /\ LET a == [api EXCEPT !.lastStatus = status]
       IN  api' =
             CASE status \in {401, 403} -> ApiIssuePage(a)
               [] status \notin {200, 401, 403} -> ApiCatch(a, MSG_HTTP, status)
               [] status = 200 ->
                    LET chunk == [page |-> a.currentPage, size |-> size]
                        b == [a EXCEPT !.allTickets = Append(@, chunk)]
                    IN  IF ApiHasMore(size)
                        THEN ApiIssuePage([b EXCEPT !.currentPage = @ + 1])
                        ELSE [b EXCEPT !.pc = "done",
                                 !.response = [NoResponse EXCEPT
                                     !.status = 200, !.kind = "analysis",
                                     !.total_tickets = TotalSize(b.allTickets),
                                     !.tickets = b.allTickets]]

\* The upstream answers the pending page call: part_000:110-141, then the
\* next iteration or the return and the handler's response.  The upstream
\* serves full pages only below page MaxPages.
ApiPageResponse(status, size) ==
    /\ api.pc = "fetch"
    /\ status = 200 \/ size = 0
    /\ size = PER_PAGE => api.currentPage < MaxPages
    /\ LET a == [api EXCEPT !.lastStatus = status]
       IN  api' =
             CASE status = 401 -> ApiCatch(a, MSG_API_401, 0)
               [] status = 403 -> ApiCatch(a, MSG_API_403, 0)
               [] status \notin {200, 401, 403} -> ApiCatch(a, MSG_HTTP, status)
               [] status = 200 ->
                    LET chunk == [page |-> a.currentPage, size |-> size]
                        b == [a EXCEPT !.allTickets = Append(@, chunk)]
                    IN  IF ApiHasMore(size)
                        THEN ApiIssuePage([b EXCEPT !.currentPage = @ + 1])
                        ELSE [b EXCEPT !.pc = "done",
                                 !.response = [NoResponse EXCEPT
                                     !.status = 200, !.kind = "analysis",
                                     !.total_tickets = TotalSize(b.allTickets),
                                     !.tickets = b.allTickets]]

\* A request to a ticket handler of one of the API-key servers, started
\* with or without an API key
InitApiKey ==
    /\ InitServerIdle
    /\ InitQueryIdle
    /\ InitScriptIdle
    /\ variant = "apikey"
    /\ raw = <<>>
    /\ analysis = NoAnalysis
    /\ body = NoBody
    /\ api \in {[NoApi EXCEPT !.pc = "new", !.server = s, !.endpoint = ep,
                              !.keySet = k] :
                   s \in ApiServers, ep \in TicketEndpoints, k \in BOOLEAN}

NextApiKey ==
    \/ ApiRequest
         /\ UNCHANGED <<serverVars, analyzerVars, queryVars, scriptVars>>
    \/ ApiNetworkError
         /\ UNCHANGED <<serverVars, analyzerVars, queryVars, scriptVars>>
    \/ \E st \in ApiStatuses, n \in PageSizes :
          ApiPageResponse(st, n)
            /\ UNCHANGED <<serverVars, analyzerVars, queryVars, scriptVars>>

SpecApiKey == InitApiKey /\ [][NextApiKey]_vars

(***************************************************************************)
(* Properties of the analyzer                                              *)
(***************************************************************************)

\* The raw ticket records no agent response: the field is absent or null.
NoAgentResponse(t) ==
    \/ t.stats = undefined
    \/ t.stats.agent_responded_at \in {undefined, null}

\* The raw outbound count, 0 when absent.
OutboundCount(t) ==
    IF t.stats = undefined THEN 0
    ELSE IF t.stats.outbound_count = undefined THEN 0
    ELSE t.stats.outbound_count.n

\* C8: every analyzed ticket is FRESH if and only if the raw ticket has no
\* agent_responded_at (absent or null) and an outbound_count (0 when absent)
\* of at most 1, and is REPLIED otherwise.
C8_FreshIff ==
    analysis.done =>
        \A i \in 1..Len(raw) :
            /\ analysis.tickets[i].attendance_status \in {"FRESH", "REPLIED"}
            /\ analysis.tickets[i].attendance_status = "FRESH"
                   <=> (NoAgentResponse(raw[i]) /\ OutboundCount(raw[i]) <= 1)

\* C8 boundary: null agent_responded_at with outbound_count 1 was analyzed FRESH.
C8_Witness ==
    /\ analysis.done
    /\ raw[1].stats = Stat(null, Num(1))
    /\ analysis.tickets[1].attendance_status = "FRESH"

\* The label the specification assigns to a raw priority code.
SpecifiedLabel(code) ==
    CASE code = Num(1) -> "P4"
      [] code = Num(2) -> "P3"
      [] code = Num(3) -> "P2"
      [] code = Num(4) -> "P1"
      [] OTHER -> "P4"

\* C9: the priority label is the fixed total function 1 -> P4, 2 -> P3,
\* 3 -> P2, 4 -> P1, anything else or an absent code -> P4, and it is always
\* one of P1..P4.
C9_PriorityTotal ==
    analysis.done =>
        \A i \in 1..Len(raw) :
            /\ analysis.tickets[i].priority = SpecifiedLabel(raw[i].priority)
            /\ analysis.tickets[i].priority \in {"P1", "P2", "P3", "P4"}

\* C9: a ticket with raw priority 4 was analyzed as P1.
C9_Witness ==
    /\ analysis.done
    /\ raw[1].priority = Num(4)
    /\ analysis.tickets[1].priority = "P1"

\* Number of entries of the result carrying the value in the field.
Exactly(field, value) ==
    Cardinality({i \in DOMAIN analysis.tickets : analysis.tickets[i][field] = value})

ScenarioInput ==
    <<[BaseTicket EXCEPT !.priority = Num(4), !.stats = Stat(null, Num(0))],
      [BaseTicket EXCEPT !.priority = Num(1), !.stats = Stat(Timestamp, Num(3))]>>

ScenarioSummary ==
    [fresh_tickets |-> 1, replied_tickets |-> 1,
     p1_count |-> 1, p2_count |-> 0, p3_count |-> 0, p4_count |-> 1]

\* C10: total_tickets is the length of the tickets sequence and each of the
\* six summary counters is the exact number of entries carrying that
\* attendance_status or priority label; the end-to-end scenario of two
\* tickets gives fresh 1, replied 1, p1 1, p2 0, p3 0, p4 1.
C10_ExactCounters ==
    analysis.done =>
        /\ analysis.total_tickets = Len(analysis.tickets)
        /\ analysis.summary.fresh_tickets = Exactly("attendance_status", "FRESH")
        /\ analysis.summary.replied_tickets = Exactly("attendance_status", "REPLIED")
        /\ analysis.summary.p1_count = Exactly("priority", "P1")
        /\ analysis.summary.p2_count = Exactly("priority", "P2")
        /\ analysis.summary.p3_count = Exactly("priority", "P3")
        /\ analysis.summary.p4_count = Exactly("priority", "P4")
        /\ raw = ScenarioInput => analysis.summary = ScenarioSummary

\* C10: the end-to-end scenario was analyzed.
C10_Witness ==
    /\ analysis.done
    /\ raw = ScenarioInput
    /\ analysis.total_tickets = 2

\* Number of the labels that the entry carries in the field.
LabelsCarried(a, field, labels) ==
    Cardinality({l \in labels : a[field] = l})

\* C11: each analyzed ticket carries exactly one of the two freshness labels
\* and exactly one of the four priority labels the summary counts, so
\* fresh_tickets + replied_tickets = total_tickets and
\* p1_count + p2_count + p3_count + p4_count = total_tickets.
C11_CountersPartition ==
    analysis.done =>
        /\ \A i \in DOMAIN analysis.tickets :
              /\ LabelsCarried(analysis.tickets[i], "attendance_status",
                               {"FRESH", "REPLIED"}) = 1
              /\ LabelsCarried(analysis.tickets[i], "priority",
                               {"P1", "P2", "P3", "P4"}) = 1
        /\ analysis.summary.fresh_tickets + analysis.summary.replied_tickets
               = analysis.total_tickets
        /\ analysis.summary.p1_count + analysis.summary.p2_count
               + analysis.summary.p3_count + analysis.summary.p4_count
               = analysis.total_tickets

\* C11: three tickets were analyzed, two of them fresh and one replied, two
\* of them P4 (one by a code the map does not know) and one P1.
C11_Witness ==
    /\ analysis.done
    /\ analysis.total_tickets = 3
    /\ raw[1].priority = undefined
    /\ analysis.summary.fresh_tickets = 2
    /\ analysis.summary.replied_tickets = 1
    /\ analysis.summary.p4_count = 2
    /\ analysis.summary.p1_count = 1

\* o.f of the raw record, undefined when o itself is absent.
RawField(o, f) == IF o \in {undefined, null} THEN undefined ELSE o[f]

\* The raw property is absent.
Absent(v) == v \in {undefined, null}

\* C12 as stated: whenever stats.first_resp_time_in_secs is present, the
\* value 0 included, response_time_minutes is that number of seconds divided
\* by 60 and rounded half-up (m with 60m - 30 <= secs < 60m + 30), and it is
\* null only when the field is absent.
C12_RoundedWhenPresent ==
    analysis.done =>
        \A i \in 1..Len(raw) :
            LET secs == RawField(raw[i].stats, "first_resp_time_in_secs")
                m == analysis.tickets[i].response_time_minutes
            IN  IF Absent(secs)
                THEN m = null
                ELSE /\ m.t = "number"
                     /\ 60 * m.n - 30 <= secs.n
                     /\ secs.n < 60 * m.n + 30

\* The status label is the word Status followed by a number.
NumericLabel(v) == v.t = "template" /\ v.prefix = "Status " /\ v.arg.t = "number"

\* The raw property the running variant reads the status from.
RawStatus(t) ==
    IF variant = "apikey" THEN t.status
    ELSE RawField(t.ticket_status, "name")

\* C13 as stated: analyze returns one AnalyzedTicket per raw ticket at the
\* same index (its ticket_id is the raw ticket's), and every missing optional
\* field shows its documented default: subject 'No subject', requester_name
\* and requester_location 'Unknown', status 'Unknown' or a numeric fallback
\* label, priority 'P4'.
C13_TotalWithDefaults ==
    analysis.done =>
        /\ Len(analysis.tickets) = Len(raw)
        /\ \A i \in 1..Len(raw) :
              LET t == raw[i]
                  a == analysis.tickets[i]
              IN  /\ a.ticket_id \in {t.human_display_id, Template("#", t.id)}
                  /\ Absent(t.subject) => a.subject = Str("No subject")
                  /\ Absent(t.priority) => a.priority = "P4"
                  /\ Absent(RawField(t.requester, "name"))
                         => a.requester_name = Str("Unknown")
                  /\ ("requester_location" \in DOMAIN a
                         /\ Absent(RawField(t.requester, "location_name")))
                         => a.requester_location = Str("Unknown")
                  /\ Absent(RawStatus(t))
                         => (a.status = Str("Unknown") \/ NumericLabel(a.status))

\* The limit N of the running variant.
SubjectLimit == IF variant = "script" THEN 80 ELSE 100

\* The first n characters of the sequence.
FirstChars(cs, n) ==
    [k \in 1..(IF Len(cs) < n THEN Len(cs) ELSE n) |-> cs[k]]

\* C14 as stated: the analyzed subject is the first N characters of every
\* raw subject (N = 100 in the servers, 80 in the script), so a subject of
\* at most N characters is returned unchanged, and an absent subject gives
\* exactly 'No subject'.
C14_FirstNChars ==
    analysis.done =>
        \A i \in 1..Len(raw) :
            LET s == raw[i].subject
                out == analysis.tickets[i].subject
            IN  IF Absent(s)
                THEN out = Str("No subject")
                ELSE /\ out.t = "text"
                     /\ Len(out.cs) <= SubjectLimit
                     /\ out.cs = FirstChars(s.cs, SubjectLimit)
                     /\ Len(s.cs) <= SubjectLimit => out = s

\* C14 amended: the analyzed subject is the first N characters of every
\* non-empty raw subject (N = 100 in the servers, 80 in the script), so its
\* length never exceeds N and a non-empty subject of at most N characters is
\* returned unchanged; an absent, null or empty subject gives exactly
\* 'No subject'.
C14_FirstNCharsOrDefault ==
    analysis.done =>
        \A i \in 1..Len(raw) :
            LET s == raw[i].subject
                out == analysis.tickets[i].subject
            IN  IF Absent(s) \/ s.cs = <<>>
                THEN out = Str("No subject")
                ELSE /\ out.t = "text"
                     /\ Len(out.cs) <= SubjectLimit
                     /\ out.cs = FirstChars(s.cs, SubjectLimit)
                     /\ Len(s.cs) <= SubjectLimit => out = s

\* C14: the script cut a subject of 81 characters down to its first 80, and
\* the subject of the ticket next to it came back unchanged.
C14_Witness ==
    /\ analysis.done
    /\ variant = "script"
    /\ Len(raw) = 2
    /\ raw[1].subject.t = "text"
    /\ Len(raw[1].subject.cs) = 81
    /\ Len(analysis.tickets[1].subject.cs) = 80
    /\ analysis.tickets[2].subject = FullTicket.subject

\* The entries of the sequence that are FRESH, in their order.
RECURSIVE FreshOf(_)
FreshOf(seq) ==
    IF seq = <<>> THEN <<>>
    ELSE (IF Head(seq).attendance_status = "FRESH" THEN <<Head(seq)>> ELSE <<>>)
             \o FreshOf(Tail(seq))

\* C15: the body of a successful GET /api/tickets/fresh holds exactly the
\* FRESH entries of the full analysis of the same tickets, in the same
\* relative order, and total_fresh is both the length of that list and the
\* fresh_tickets counter of the full analysis.
C15_FreshOnly ==
    body.endpoint = "/api/tickets/fresh" =>
        /\ analysis = analyzeTickets(raw)
        /\ body.tickets = FreshOf(analysis.tickets)
        /\ body.total_fresh = Len(body.tickets)
        /\ body.total_fresh = analysis.summary.fresh_tickets

\* C15: of three analyzed tickets the first and the third were fresh, and
\* the fresh handler sent these two.
C15_Witness ==
    /\ body.endpoint = "/api/tickets/fresh"
    /\ Len(analysis.tickets) = 3
    /\ analysis.tickets[2].attendance_status = "REPLIED"
    /\ analysis.tickets[1] # analysis.tickets[3]
    /\ body.total_fresh = 2
    /\ body.tickets = <<analysis.tickets[1], analysis.tickets[3]>>


(***************************************************************************)
(* Properties of the cookie-mode server                                    *)
(***************************************************************************)

\* In this step request p receives the answer to its page call in flight.
Answered(p) == reqs[p].pc = "fetch" /\ reqs'[p] # reqs[p]

\* In this step request p receives a 401 or 403 for its page call in flight.
Denied(p) == Answered(p) /\ reqs'[p].lastResult = "denied"

\* In this step the login of request p settles and control is back in its caller.
LoginSettles(p) ==
    /\ reqs[p].pc \in {"launch", "closing"}
    /\ reqs'[p].pc \notin {"launch", "browser", "closing"}

\* In this step browser.close() rejects in the login of request p, so the
\* login throws whatever it was about to do.
CloseRejects(p) ==
    /\ reqs[p].pc = "closing"
    /\ reqs'[p].pc = "done"
    /\ reqs'[p].response.error = MSG_CLOSE

\* C1 as stated: every fetch that was answered 401/403 in its first attempt
\* has, once it is over, made exactly one login and run exactly one retried
\* fetch sequence.
C1_AlwaysRetried ==
    \A p \in Requests :
        (reqs[p].pc = "done" /\ reqs[p].relogins > 0) =>
            (reqs[p].relogins = 1 /\ reqs[p].attempts = 2)

C1_Step(p) ==
    \* a 401/403 in the first attempt: clear the session, call login once
    /\ (Denied(p) /\ reqs[p].attempts = 1) =>
          /\ sessionCookies' = NULL
          /\ reqs[p].relogins = 0 /\ reqs'[p].relogins = 1
          /\ reqs'[p].loginCalls = reqs[p].loginCalls + 1
          /\ reqs'[p].attempts = 1
          /\ credentialsSet => reqs'[p].pc = "launch"
    \* the re-login is never called in another way, and never twice
    /\ reqs'[p].relogins # reqs[p].relogins => (Denied(p) /\ reqs[p].attempts = 1)
    \* a successful re-login is followed by the one retried sequence, which
    \* starts empty at page 1, unless the cache is empty again by then
    /\ (LoginSettles(p) /\ reqs[p].caller = "relogin" /\ reqs[p].loginError = NoError
            /\ reqs[p].pc = "closing" /\ ~CloseRejects(p)) =>
          /\ reqs'[p].attempts = 2
          /\ reqs'[p].retryOnAuth = FALSE
          /\ reqs'[p].allTickets = <<>>
          /\ IF sessionCookies # NULL
             THEN /\ reqs'[p].pc = "fetch"
                  /\ reqs'[p].request.page = 1
                  /\ reqs'[p].request.cookie = sessionCookies
                  /\ reqs'[p].pageCalls = 1
             ELSE /\ reqs'[p].pc = "done"
                  /\ reqs'[p].response.error = MSG_NO_SESSION
                  /\ reqs'[p].pageCalls = 0
    \* a failed re-login ends the fetch without a retried sequence
    /\ (LoginSettles(p) /\ reqs[p].caller = "relogin"
            /\ (reqs[p].pc = "launch" \/ reqs[p].loginError # NoError
                    \/ CloseRejects(p))) =>
          /\ reqs'[p].attempts = 1
          /\ reqs'[p].pc = "done"
          /\ reqs'[p].response.status = 500
    \* there is no second retried sequence
    /\ reqs'[p].attempts <= 2
    /\ reqs'[p].attempts = 2 => reqs'[p].relogins = 1

\* C1 (amended): a 401/403 in the first attempt clears the cached session and
\* makes the fetcher call the login exactly once; if that login succeeds the
\* fetcher runs exactly one retried sequence, which starts empty at page 1
\* (or fails with 'No session' when the cache is empty again); if the login
\* fails there is no retried sequence and the fetch fails.
C1_ReloginOnce == [][\A p \in Requests : C1_Step(p)]_vars

\* C1: after a 401/403 in the first attempt and a successful re-login, the
\* retried sequence is under way with its call of page 1 in flight.
C1_Witness ==
    \E p \in Requests :
        /\ reqs[p].pc = "fetch"
        /\ reqs[p].attempts = 2
        /\ reqs[p].relogins = 1
        /\ reqs[p].request.page = 1
        /\ reqs[p].lastResult = "denied"

C2_Step(p) ==
    /\ (Denied(p) /\ reqs[p].attempts = 2) =>
          /\ reqs'[p].pc = "done"
          /\ reqs'[p].response.status = 500
          /\ reqs'[p].response.error = MSG_RELOGIN_FAILED
          /\ reqs'[p].loginCalls = reqs[p].loginCalls
          /\ reqs'[p].pageCalls = reqs[p].pageCalls
          /\ reqs'[p].attempts = 2
    /\ reqs[p].pc = "done" => reqs'[p] = reqs[p]

\* C2: a 401/403 answered to a page of the retried sequence ends the fetch:
\* the handler answers 500 with the error, no login and no page call are
\* started in that step, and a finished request never acts again.
C2_SecondDenialFatal == [][\A p \in Requests : C2_Step(p)]_vars

\* C2: a request ended with the error of a denied retried sequence.
C2_Witness ==
    \E p \in Requests :
        /\ reqs[p].pc = "done"
        /\ reqs[p].attempts = 2
        /\ reqs[p].lastResult = "denied"
        /\ reqs[p].response.error = MSG_RELOGIN_FAILED


\* The sizes of a sequence of fetched pages.
Sizes(T) == [i \in 1..Len(T) |-> T[i].size]

\* The pages are pages 1, 2, 3, ... fetched by the current invocation of p.
InOrder(p, T) ==
    \A i \in 1..Len(T) :
        T[i].page = i /\ T[i].req = p /\ T[i].attempt = reqs[p].attempts

C3_Pages(p) ==
    LET r == reqs[p]
        T == r.allTickets
        n == Len(T)
    IN  \* while fetching: n full pages so far, the call of page n + 1 in flight
        /\ r.pc = "fetch" =>
              /\ r.request.page = n + 1
              /\ r.request.per_page = 100
              /\ r.pageCalls = n + 1
              /\ InOrder(p, T)
              /\ \A i \in 1..n : T[i].size = 100
        \* on success: the result is the pages in order, all full but the last
        /\ (r.pc = "done" /\ r.response.kind = "analysis") =>
              /\ r.response.tickets = T
              /\ n >= 1
              /\ r.pageCalls = n
              /\ InOrder(p, T)
              /\ \A i \in 1..(n - 1) : T[i].size = 100
              /\ T[n].size # 100
              /\ r.response.total_tickets = 100 * (n - 1) + T[n].size
              /\ Sizes(T) = <<100, 100, 42>> =>
                     (r.response.total_tickets = 242 /\ r.pageCalls = 3)
              /\ Sizes(T) = <<0>> =>
                     (r.response.total_tickets = 0 /\ r.pageCalls = 1)

\* C3: the fetch requests pages 1, 2, 3, ... in order with page size 100,
\* stops right after the first page whose size is not 100 and returns the
\* concatenation of the fetched pages in order, so the number of calls is the
\* index of the first short page (100, 100, 42: 242 tickets in 3 calls; an
\* empty first page: no ticket in 1 call).
C3_Pagination == \A p \in Requests : C3_Pages(p)

\* C3: a fetch of pages of 100, 100 and 42 tickets returned 242 tickets.
C3_Witness ==
    \E p \in Requests :
        /\ reqs[p].pc = "done"
        /\ reqs[p].response.kind = "analysis"
        /\ Sizes(reqs[p].response.tickets) = <<100, 100, 42>>
        /\ reqs[p].response.total_tickets = 242

\* C4: a fetch never returns a partial result: when the page call that ends
\* the fetch failed (401/403, other HTTP error, transport error), the handler
\* answers 500 without any ticket data, whatever had been accumulated; ticket
\* data is sent only after a last page that was answered without error.
C4_NoPartialResult ==
    \A p \in Requests :
        (reqs[p].pc = "done" /\ reqs[p].endpoint = "/api/tickets") =>
            /\ reqs[p].lastResult \in {"denied", "http_error", "network_error"} =>
                  /\ reqs[p].response.kind = "error"
                  /\ reqs[p].response.status = 500
                  /\ reqs[p].response.tickets = <<>>
                  /\ reqs[p].response.total_tickets = 0
            /\ reqs[p].response.tickets # <<>> =>
                  /\ reqs[p].response.status = 200
                  /\ reqs[p].lastResult = "ok"
                  /\ reqs[p].response.tickets = reqs[p].allTickets

\* C4: a fetch failed on an HTTP error after it had accumulated a page.
C4_Witness ==
    \E p \in Requests :
        /\ reqs[p].pc = "done"
        /\ reqs[p].lastResult = "http_error"
        /\ reqs[p].allTickets # <<>>
        /\ reqs[p].response.kind = "error"

\* In this step the handler of a ticket endpoint starts and calls
\* ensureValidSession.
Ensures(p) == reqs[p].pc = "new" /\ reqs'[p].endpoint = "/api/tickets"

C5_Step(p) ==
    Ensures(p) =>
        /\ reqs'[p].loginCalls \in {0, 1}
        /\ reqs'[p].loginCalls = 1
              <=> (sessionCookies = NULL \/ now - lastLoginTime > 30 * 60 * 1000)
        /\ sessionCookies' = sessionCookies
        /\ lastLoginTime' = lastLoginTime
        /\ reqs'[p].loginCalls = 0 =>
              (reqs'[p].pc = "fetch" /\ reqs'[p].request.cookie = sessionCookies)

\* C5: ensureValidSession calls the login if and only if no session is
\* cached or the cached session is older than 30 minutes; at an age of 30
\* minutes or less it calls no login and the cached cookie string and the
\* last login time stay as they are.
C5_LoginIffExpired == [][\A p \in Requests : C5_Step(p)]_vars

\* C5: the second request found the only session ever cached exactly 30
\* minutes old and went on to fetch without a login.
C5_Witness ==
    /\ reqs[2].pc = "fetch"
    /\ reqs[2].endpoint = "/api/tickets"
    /\ reqs[2].loginCalls = 0
    /\ cookiesIssued = 1
    /\ reqs[2].ensureNow - lastLoginTime = 30 * 60 * 1000

\* C6 as stated: every 401/403 answered to a page call, in the first attempt
\* and in the retried one, clears the cached session at once.
C6_EveryDenialClears == [][\A p \in Requests : Denied(p) => sessionCookies' = NULL]_vars

C7_Step(p) ==
    \* with no session cached, ensureValidSession calls the login whatever
    \* the last login time is, and no page call is made before it
    /\ (Ensures(p) /\ sessionCookies = NULL) =>
          /\ reqs'[p].loginCalls = 1
          /\ reqs'[p].caller = "ensure"
          /\ reqs'[p].pageCalls = 0
          /\ credentialsSet => reqs'[p].pc = "launch"
    \* a page call carries the value the cache has when the call is made
    /\ (reqs'[p].request # reqs[p].request /\ reqs'[p].request # NoCall) =>
          reqs'[p].request.cookie = sessionCookies

\* C7: once the cached session has been dropped, the next ensureValidSession
\* call starts a login regardless of the last login time, and the dropped
\* cookie string is never used again: page calls carry the current content
\* of the cache, which only ever changes to empty or to a cookie string that
\* was never cached before.
C7_FreshLoginAfterDrop ==
    [][/\ \A p \in Requests : C7_Step(p)
       /\ sessionCookies' # sessionCookies =>
             (sessionCookies' = NULL \/ sessionCookies' > cookiesIssued)]_vars

\* C7: the first request lost its session to a 401/403 and a failed re-login;
\* the second request, within 30 minutes of that login, starts a login.
C7_Witness ==
    /\ reqs[1].pc = "done"
    /\ reqs[1].relogins = 1
    /\ reqs[1].attempts = 1
    /\ cookiesIssued = 1
    /\ sessionCookies = NULL
    /\ reqs[2].pc = "launch"
    /\ reqs[2].caller = "ensure"
    /\ lastLoginTime > 0
    /\ reqs[2].ensureNow - lastLoginTime <= 30 * 60 * 1000

\* The message tells of missing or rejected credentials.
CredentialProblem(msg) ==
    msg \in {MSG_MISSING, MSG_LOGIN_FAILED, MSG_LOGIN_FAILED_TEXT}

\* C16 as stated: a ticket endpoint answers every failure of session
\* acquisition or fetch with status 500 and the error's message, and with a
\* non-null hint whenever the message indicates missing or rejected
\* credentials.
C16_ErrorWithHint ==
    \A p \in Requests :
        (/\ reqs[p].pc = "done"
         /\ reqs[p].endpoint = "/api/tickets"
         /\ reqs[p].response.kind # "analysis")
        => /\ reqs[p].response.status = 500
           /\ reqs[p].response.error # ""
           /\ CredentialProblem(reqs[p].response.error)
                  => reqs[p].response.hint # ""

\* C17: while the credentials are not configured, no browser is ever
\* launched and no login page is ever driven, and every ticket request is
\* over at once: answered 500 with the missing-configuration message after
\* one call of the login, with no invocation of the fetch, no page request
\* and no second login; this holds for the first request and for the later
\* one alike.
C17_MissingConfigFailsFirst ==
    ~credentialsSet =>
        /\ openBrowsers = 0
        /\ cookiesIssued = 0
        /\ sessionCookies = NULL
        /\ \A p \in Requests :
              /\ reqs[p].pc \in {"new", "done"}
              /\ (reqs[p].pc = "done" /\ reqs[p].endpoint = "/api/tickets")
                 => /\ reqs[p].response.status = 500
                    /\ reqs[p].response.error = MSG_MISSING
                    /\ reqs[p].loginCalls = 1
                    /\ reqs[p].relogins = 0
                    /\ reqs[p].attempts = 0
                    /\ reqs[p].pageCalls = 0
                    /\ reqs[p].request = NoCall

\* C17: without credentials two ticket requests, one after the other, were
\* both answered with the missing-configuration message.
C17_Witness ==
    /\ ~credentialsSet
    /\ \A p \in Requests :
          /\ reqs[p].pc = "done"
          /\ reqs[p].endpoint = "/api/tickets"
          /\ reqs[p].response.error = MSG_MISSING

\* C18, for one step of request p: when its page call is answered with a
\* status that is neither 200 nor 401/403, or fails on the transport level,
\* the request is over in that very step with a 500 response; no further
\* page call, fetch invocation or login is made, the cached session and its
\* timestamp stay as they were, and the error of an HTTP failure carries
\* the status code.
C18_Step(p) ==
    (Answered(p) /\ reqs'[p].lastStatus \notin {200} \cup AuthDenied)
    => /\ reqs'[p].pc = "done"
       /\ reqs'[p].response.status = 500
       /\ reqs'[p].response.kind = "error"
       /\ reqs'[p].pageCalls = reqs[p].pageCalls
       /\ reqs'[p].attempts = reqs[p].attempts
       /\ reqs'[p].loginCalls = reqs[p].loginCalls
       /\ UNCHANGED <<sessionCookies, lastLoginTime, cookiesIssued, openBrowsers>>
       /\ IF reqs'[p].lastStatus # 0
          THEN /\ reqs'[p].response.error = MSG_HTTP
               /\ reqs'[p].response.errorStatus = reqs'[p].lastStatus
          ELSE reqs'[p].response.error = MSG_NETWORK

C18_OtherFailuresFatal == [][\A p \in Requests : C18_Step(p)]_vars

\* C18: after a first full page, the second page call was answered 500: the
\* request is over, the session is still cached, one login had been made.
C18_Witness ==
    /\ reqs[1].pc = "done"
    /\ reqs[1].lastStatus = 500
    /\ reqs[1].response.errorStatus = 500
    /\ reqs[1].pageCalls = 2
    /\ reqs[1].loginCalls = 1
    /\ sessionCookies # NULL

\* In this step the login of request p reads the URL it has landed on.
ReadsUrl(p) == reqs[p].pc = "browser" /\ reqs'[p].currentUrl # ""

\* C19, for one step of request p: once the login has read the URL reached
\* after submitting, the URL alone decides: on the login page the login
\* fails with a 'Login failed' reason and leaves the cache alone; anywhere
\* else it stores a new cookie string and the current time in the same step
\* and returns that cookie string.  When the login is over, a failed one is
\* thrown to the caller, which answers the request with the reason (or with
\* the error of a failed browser.close()) and without a second login.
C19_Step(p) ==
    /\ ReadsUrl(p) =>
          IF reqs'[p].currentUrl = LOGIN_URL
          THEN /\ reqs'[p].loginError.message
                      \in {MSG_LOGIN_FAILED, MSG_LOGIN_FAILED_TEXT}
               /\ reqs'[p].returned = NULL
               /\ UNCHANGED <<sessionCookies, lastLoginTime, cookiesIssued>>
          ELSE /\ reqs'[p].loginError = NoError
               /\ sessionCookies' \notin {NULL, sessionCookies}
               /\ lastLoginTime' = now
               /\ reqs'[p].returned = sessionCookies'
    /\ (reqs[p].pc = "closing" /\ reqs'[p].pc # "closing"
            /\ reqs[p].currentUrl = LOGIN_URL)
       => /\ reqs'[p].pc = "done"
          /\ reqs'[p].response.error
                 = IF CloseRejects(p) THEN MSG_CLOSE
                   ELSE reqs[p].loginError.message
          /\ reqs'[p].loginCalls = reqs[p].loginCalls
          /\ UNCHANGED <<sessionCookies, lastLoginTime>>

C20_Step(p) ==
    /\ (reqs[p].pc = "new" /\ reqs'[p].endpoint = "/api/login")
       => /\ reqs'[p].caller = "manual"
          /\ reqs'[p].loginCalls = 1
          /\ reqs'[p].pc = IF credentialsSet THEN "launch" ELSE "done"
    /\ (reqs[p].endpoint = "/api/login" /\ ReadsUrl(p)
            /\ reqs'[p].currentUrl # LOGIN_URL)
       => /\ sessionCookies' \notin {NULL, sessionCookies}
          /\ lastLoginTime' = now
    /\ (reqs'[p].endpoint = "/api/login" /\ reqs[p].pc # "done"
            /\ reqs'[p].pc = "done")
       => IF reqs[p].pc = "closing" /\ reqs[p].loginError = NoError
                  /\ ~CloseRejects(p)
          THEN /\ reqs'[p].response.status = 200
               /\ reqs'[p].response.kind = "login_ok"
               /\ reqs'[p].response.error = ""
          ELSE /\ reqs'[p].response.status = 401
               /\ reqs'[p].response.kind = "login_failed"
               /\ reqs'[p].response.error # ""

C20_ManualLoginAlways == [][\A p \in Requests : C20_Step(p)]_vars

\* C20: request 1 has fetched its tickets with the session it logged in
\* for, no time has passed since, and the POST /api/login that arrived
\* after it has replaced that session and was answered with success.
C20_Witness ==
    /\ reqs[1].pc = "done"
    /\ reqs[1].response.kind = "analysis"
    /\ reqs[1].loginCalls = 1
    /\ ticks = 0
    /\ reqs[2].endpoint = "/api/login"
    /\ reqs[2].pc = "done"
    /\ reqs[2].response.kind = "login_ok"
    /\ cookiesIssued = 2
    /\ sessionCookies = 2

\* The login of request p is in flight.
LoginInFlight(p) == reqs[p].pc \in {"launch", "browser", "closing"}

\* C24, for one step of request p: a ticket request that calls
\* ensureValidSession while no session is cached or the cached one has
\* expired starts a login of its own, whether or not the login of another
\* request is in flight.
C24_Step(p) ==
    (Ensures(p) /\ sessionExpired /\ credentialsSet)
    => /\ reqs'[p].caller = "ensure"
       /\ reqs'[p].loginCalls = 1
       /\ reqs'[p].pc = "launch"

C24_NotSingleFlight == [][\A p \in Requests : C24_Step(p)]_vars

\* C24: two logins started by ensureValidSession are in flight at once, each
\* with a browser of its own, and no login has completed yet.
C24_Witness ==
    /\ \A p \in Requests :
          /\ reqs[p].endpoint = "/api/tickets"
          /\ reqs[p].caller = "ensure"
          /\ reqs[p].pc = "browser"
    /\ openBrowsers = 2
    /\ cookiesIssued = 0
    /\ sessionCookies = NULL

\* In this step the login of request p lands behind the login page.
LoginSucceeds(p) == ReadsUrl(p) /\ reqs'[p].currentUrl # LOGIN_URL

\* C25, for one step: the cached cookie string changes only by being set to
\* a new cookie string in the step in which a login succeeds or by being
\* cleared in the step in which a page call is answered 401/403, and the
\* last login time changes only in the step in which a login succeeds.
C25_Step ==
    /\ sessionCookies' # sessionCookies =>
          \/ /\ \E p \in Requests : LoginSucceeds(p)
             /\ cookiesIssued' = cookiesIssued + 1
             /\ sessionCookies' = cookiesIssued'
          \/ /\ \E p \in Requests : Denied(p)
             /\ sessionCookies' = NULL
    /\ lastLoginTime' # lastLoginTime =>
          /\ \E p \in Requests : LoginSucceeds(p)
          /\ lastLoginTime' = now

C26_OwnPagesOnly ==
    \A p \in Requests :
        /\ \A i \in DOMAIN reqs[p].allTickets :
              /\ reqs[p].allTickets[i].req = p
              /\ reqs[p].allTickets[i].attempt = reqs[p].attempts
        /\ reqs[p].response.kind = "analysis" =>
              /\ reqs[p].response.tickets = reqs[p].allTickets
              /\ reqs[p].response.total_tickets = TotalSize(reqs[p].allTickets)

\* C26: both requests were answered with tickets, request 1 with two pages
\* and request 2 with one.
C26_Witness ==
    /\ reqs[1].response.kind = "analysis"
    /\ Len(reqs[1].response.tickets) = 2
    /\ reqs[2].response.kind = "analysis"
    /\ Len(reqs[2].response.tickets) = 1
    /\ reqs[2].response.tickets[1].size = 42

\* C28 as stated: every page call in flight carries a cookie string.
C28_CookieNeverNull ==
    \A p \in Requests :
        reqs[p].pc = "fetch" => reqs[p].request.cookie # NULL

\* C29: a ticket request makes at most two logins, at most one of them in
\* ensureValidSession and at most one after a 401/403, and at most two
\* invocations of the paginated fetch.
C29_BoundedWork ==
    \A p \in Requests :
        reqs[p].endpoint = "/api/tickets" =>
            /\ reqs[p].loginCalls <= 2
            /\ reqs[p].relogins <= 1
            /\ reqs[p].loginCalls - reqs[p].relogins <= 1
            /\ reqs[p].attempts <= 2

\* C29: a ticket request is over after two logins and two fetch attempts.
C29_Witness ==
    \E p \in Requests :
        /\ reqs[p].endpoint = "/api/tickets"
        /\ reqs[p].pc = "done"
        /\ reqs[p].loginCalls = 2
        /\ reqs[p].relogins = 1
        /\ reqs[p].attempts = 2

\* The errors loginAndGetCookies throws.
LoginErrors ==
    {MSG_MISSING, MSG_LAUNCH, MSG_NAVIGATION, MSG_LOGIN_FAILED,
     MSG_LOGIN_FAILED_TEXT, MSG_CLOSE}

\* In this step the login of request p throws to its caller.
LoginThrows(p) ==
    /\ reqs[p].pc \in {"new", "launch", "closing"}
    /\ reqs'[p].pc = "done"
    /\ reqs'[p].response.error \in LoginErrors

\* C30 as stated, for one step of request p: a login that throws has stored
\* no cookie string and no login time, and the step in which it throws
\* leaves both as they are.
C30_FailedLoginKeepsCache ==
    [][\A p \in Requests :
          LoginThrows(p) =>
              /\ reqs[p].returned = NULL
              /\ UNCHANGED <<sessionCookies, lastLoginTime>>]_vars

\* C21: in the API-key server with the today filter, a request with
\* filter=today is fetched with today's midnight as the cutoff whatever its
\* minutes parameter is; with any other filter value or none the cutoff is
\* now minus the resolved minutes.
C21_TodayOverridesMinutes ==
    (query.server = "today" /\ fetchQuery # NoFetchQuery) =>
        IF query.filter = Text(TODAY)
        THEN fetchQuery = [kind |-> "cutoff", value |-> getTodayMidnight]
        ELSE fetchQuery =
                [kind |-> "cutoff",
                 value |-> (QueryClock - options.minutes.n * 60000) \div 1000]

\* C21: filter=today together with minutes=11 is fetched from midnight, which
\* is not eleven minutes ago.
C21_Witness ==
    /\ query.server = "today"
    /\ query.filter = Text(TODAY)
    /\ query.minutes = Text(<<49, 49>>)
    /\ options.t = "object"
    /\ options.minutes = Num(11)
    /\ fetchQuery.kind = "cutoff"
    /\ fetchQuery.value = getTodayMidnight
    /\ fetchQuery.value # (QueryClock - 11 * 60000) \div 1000

\* C27 as stated: in the cookie-mode server the resolved time window is
\* the integer parsed from the minutes parameter when the parameter writes
\* an integer, and 1440 when the parameter is absent; the fetch is given the
\* resolved value.
C27_ParsedOrDefault ==
    (query.server = "cookie" /\ fetchQuery # NoFetchQuery) =>
        /\ query.minutes = undefined => options.minutes = Num(1440)
        /\ (query.minutes # undefined /\ parseInt(query.minutes) # NaN) =>
              options.minutes = parseInt(query.minutes)
        /\ fetchQuery = [kind |-> "minutes", value |-> options.minutes.n]

\* C22 as stated: whichever step of analyzeTicketsWithPuter fails, the
\* function returns null to main.
C22_NullOnEveryFailure ==
    (script.failed # {} /\ script.pc \in {"returned", "mainCatch", "done"}) =>
        script.result = Returned(null)

\* The values whose ToBoolean is false.
Falsy == {undefined, null, Num(0), Text(<<>>)}

\* C23: when the oracle analysis has returned null or a value whose
\* total_tickets is missing or falsy, the analysis main saves and prints is
\* the local analyzer's analysis of the fetched tickets.
C23_FallbackToLocal ==
    (/\ script.pc = "done"
     /\ script.result.kind = "return"
     /\ \/ script.result.value = null
        \/ GetTotal(script.result.value) \in Falsy)
    => /\ script.saved.from = "local"
       /\ script.printed = script.saved
       /\ analysis.done
       /\ analysis.total_tickets = Len(raw)
       /\ analysis.tickets = [i \in 1..Len(raw) |-> analyzeTicketLocally(raw[i])]

\* C23: the oracle answered with an object whose total_tickets is 0 and main
\* saved the local analysis of the two fetched tickets.
C23_Witness ==
    /\ script.pc = "done"
    /\ script.result = Returned(OracleObject(Num(0)))
    /\ script.saved.from = "local"
    /\ Len(raw) = 2
    /\ analysis.done
    /\ analysis.total_tickets = 2

\* C31: when a fetch succeeds after a re-login, what it returns is the pages
\* the retried sequence fetched, from page 1 on and each once; nothing the
\* first attempt had accumulated before its 401/403 is part of it.
C31_RetriedPagesOnly ==
    \A p \in Requests :
        (reqs[p].response.kind = "analysis" /\ reqs[p].relogins = 1) =>
            LET T == reqs[p].response.tickets
            IN  /\ reqs[p].attempts = 2
                /\ Len(T) = reqs[p].pageCalls
                /\ \A i \in DOMAIN T : T[i].attempt = 2 /\ T[i].page = i
                /\ \A i, j \in DOMAIN T : T[i].page = T[j].page => i = j
                /\ reqs[p].response.total_tickets = TotalSize(T)

\* C31: a fetch that was denied, logged in again and then fetched a full
\* page and a short one returned those two pages.
C31_Witness ==
    \E p \in Requests :
        /\ reqs[p].pc = "done"
        /\ reqs[p].response.kind = "analysis"
        /\ reqs[p].relogins = 1
        /\ reqs[p].attempts = 2
        /\ Sizes(reqs[p].response.tickets) = <<100, 42>>
        /\ reqs[p].response.total_tickets = 142

\* The requests whose login holds a browser.
HoldsBrowser == {p \in Requests : reqs[p].pc \in {"browser", "closing"}}

C33_Step ==
    /\ sessionCookies' # NULL =>
          /\ lastLoginTime' # 0
          /\ lastLoginTime' >= BootTime
          /\ lastLoginTime' <= now'
    /\ sessionCookies' \notin {NULL, sessionCookies} => lastLoginTime' = now
    /\ lastLoginTime' >= lastLoginTime

C33_LoginTimeFollowsCookies == [][C33_Step]_vars

\* C33: a second login succeeded after the clock had advanced.
C33_Witness ==
    /\ sessionCookies = 2
    /\ cookiesIssued = 2
    /\ ticks = 1
    /\ lastLoginTime = now
    /\ lastLoginTime > BootTime

\* In this step request p enters fetchTicketsFromAPI.
EntersFetch(p) == reqs'[p].attempts = reqs[p].attempts + 1

\* C34, for one step of request p: fetchTicketsFromAPI entered while no
\* session is cached throws 'No session' at once; no page request is issued
\* and no login is started.
C34_Step(p) ==
    (EntersFetch(p) /\ sessionCookies = NULL)
    => /\ reqs'[p].pc = "done"
       /\ reqs'[p].response.status = 500
       /\ reqs'[p].response.error = MSG_NO_SESSION
       /\ reqs'[p].pageCalls = 0
       /\ reqs'[p].request = reqs[p].request
       /\ reqs'[p].loginCalls = reqs[p].loginCalls
       /\ sessionCookies' = NULL

C34_NoSessionFailsFast == [][\A p \in Requests : C34_Step(p)]_vars

\* C34: a ticket request was answered 'No session' by a fetch that issued no
\* page request.
C34_Witness ==
    \E p \in Requests :
        /\ reqs[p].endpoint = "/api/tickets"
        /\ reqs[p].pc = "done"
        /\ reqs[p].response.error = MSG_NO_SESSION
        /\ reqs[p].attempts >= 1
        /\ reqs[p].pageCalls = 0
        /\ sessionCookies = NULL

\* The upstream settles the page call of request p: with a response or with
\* a transport error.
Answer(p) ==
    /\ \/ NetworkError(p)
       \/ \E st \in {200} \cup AuthDenied \cup OtherHttpErrors, n \in PageSizes :
             PageResponse(p, st, n)
    /\ UNCHANGED <<analyzerVars, queryVars, scriptVars, apiVars>>

\* The cookie-mode server with an upstream that settles every page call.
\* fetch() is awaited without a deadline of the program's own; that it
\* settles is the upstream's and the transport's doing.
SpecLive == Spec /\ \A p \in Requests : WF_vars(Answer(p))

\* C35: the paginated fetch terminates when the upstream answers every page
\* call and does not serve full pages for ever: a request inside the loop
\* leaves it, and at no time has the loop made more calls than the number
\* of full pages received plus one, so a fetch that returns N tickets has
\* made floor(N / 100) + 1 calls.
C35_FetchTerminates ==
    /\ [](\A p \in Requests :
            /\ reqs[p].pc = "fetch" =>
                  reqs[p].pageCalls = TotalSize(reqs[p].allTickets) \div 100 + 1
            /\ reqs[p].response.kind = "analysis" =>
                  /\ reqs[p].pageCalls = reqs[p].response.total_tickets \div 100 + 1
                  /\ reqs[p].response.total_tickets = TotalSize(reqs[p].allTickets))
    /\ \A p \in Requests : (reqs[p].pc = "fetch") ~> (reqs[p].pc # "fetch")

\* C35: a fetch went through MaxPages - 1 full pages and a short one and
\* returned all their tickets.
C35_Witness ==
    \E p \in Requests :
        /\ reqs[p].pc = "done"
        /\ reqs[p].response.kind = "analysis"
        /\ reqs[p].pageCalls = MaxPages
        /\ reqs[p].response.total_tickets = 100 * (MaxPages - 1) + 42

\* C36, for one step: in the API-key servers a page call answered 401 or 403
\* ends the fetch with that call: the handler answers 500 with the message
\* about the API key, no tickets are returned, no further page is requested
\* and no login or browser is started.
C36_Step ==
    (api.pc = "fetch" /\ api' # api /\ api'.lastStatus \in {401, 403})
    => /\ api'.pc = "done"
       /\ api'.pageCalls = api.pageCalls
       /\ api'.currentPage = api.currentPage
       /\ api'.response.status = 500
       /\ api'.response.error =
             IF api'.lastStatus = 401 THEN MSG_API_401 ELSE MSG_API_403
       /\ api'.response.tickets = <<>>
       /\ UNCHANGED <<sessionCookies, lastLoginTime, cookiesIssued, openBrowsers>>

C36_DenialEndsFetch == [][C36_Step]_vars

\* C36: the second page call was answered 403 and the request is over after
\* two calls with the access-denied message.
C36_Witness ==
    /\ api.pc = "done"
    /\ api.lastStatus = 403
    /\ api.pageCalls = 2
    /\ Len(api.allTickets) = 1
    /\ api.response.status = 500
    /\ api.response.error = MSG_API_403

\* C37 as stated: whatever analysis main saves, its total_tickets is the
\* number of fetched tickets.
C37_SavedTotalIsExact ==
    script.saved.from # "none" =>
        IF script.saved.from = "local"
        THEN analysis.total_tickets = Len(raw)
        ELSE GetTotal(script.saved.oracle) = Num(Len(raw))


====
